---- MODULE Spec2Model ----
(***************************************************************************)
(* Flash Storefront PWA: the offline checkout queue of the service worker  *)
(* (public/sw.js), the client code that feeds and triggers it (App.tsx,    *)
(* services/api.ts, hooks/useConnectivity.ts) and the audience filter of   *)
(* the push server (server/index.js).                                      *)
(*                                                                         *)
(* Time is counted in ticks of TICK_MINUTES minutes, so that the 72 h      *)
(* expiry threshold of sw.js is exactly one tick.  Every await of the      *)
(* worker is a point where another handler may run; a step of the model    *)
(* is the code between two awaits.  Messages the worker posts to its       *)
(* clients are not kept as state: the step that posts one is named by a    *)
(* predicate on the step (Completes, ReportsPending).                      *)
(***************************************************************************)
EXTENDS Integers, Sequences, FiniteSets, TLC

\* ---- bounds of the model ----
MaxId == 3          \* order ids are 1..MaxId; IndexedDB key order is numeric order
MaxBody == 2        \* distinct payload contents per id
MaxNow == 2         \* the clock stops after MaxNow ticks
MaxPasses == 2      \* processCheckoutQueue invocations that may be in progress at once
MaxCheckouts == 3   \* QUEUE_CHECKOUT messages the worker handles in one run
MaxInbox == 1       \* client -> worker messages in flight (SpecApp)
MaxAppId == 1       \* order ids the storefront page uses (SpecApp)
MaxDurableId == 2   \* order ids of the queue with storage failures (SpecDurable)
MaxAudience == 2    \* subscriptions in one call of the audience filter (SpecFilter)
MaxEndpoints == 2   \* push endpoints 1..MaxEndpoints (SpecServer)
MaxCampaigns == 1   \* campaign documents the server inserts (SpecServer)
MaxDispatches == 2  \* fan-outs that may be in progress at once (SpecServer)
MaxClock == 2       \* the server clock stops after MaxClock seconds (SpecServer)
MaxRequests == 2    \* HTTP requests the server handles in one run (SpecServer)
MaxRestarts == 1    \* restarts of the server process in one run (SpecServer)
MaxOrderId == 2     \* order ids of POST /api/orders are 1..MaxOrderId (SpecSubscriptions)
MaxTotal == 2       \* distinct contents of an order payload (SpecSubscriptions)
MaxChanges == 3     \* preference changes made in the settings panel (SpecPanel)
MaxPushes == 2      \* push events the worker receives in one run (SpecPush)

\* ---- constants of the program ----
TICK_MINUTES == 72 * 60
EXPIRY_MINUTES == 72 * 60
Passes == 1..MaxPasses

VARIABLES
  now,       \* Date.now(), in ticks
  store,     \* the checkoutQueue object store: a set of {id, payload, queuedAt} records
  passes,    \* the invocations of processCheckoutQueue
  queued,    \* number of QUEUE_CHECKOUT messages handled so far
  net,       \* "offline": navigator.onLine is false; "down": online, POST /orders fails;
             \* "up": online and the endpoint accepts writes
  inbox,     \* messages the page posted to the worker, in posting order
  syncReg,   \* a 'checkout-sync' registration is pending in the SyncManager
  hasSync,   \* registration.sync exists (the browser provides Background Sync)
  caches,    \* the CacheStorage of the origin: the caches, each with its name and entries
  lifecycle, \* the worker's install and activate events and their handlers
  handler,   \* the 'message' handler of a QUEUE_CHECKOUT that is in progress
  settled,   \* how the promise of the store operation of the latest store step settled
  pending,   \* pendingSyncRef.current of the Storefront page
  toast,     \* the toast the Storefront page set last
  checkout,  \* the handleCheckout call of the page: pc is "registering" while it awaits
             \* registration.sync.register inside queueOfflineCheckout, "idle" otherwise
  orders,         \* the orders collection of the server
  pushes,         \* number of push events the worker has received
  notifications,  \* the notifications the worker has shown that are still displayed
  opened,         \* number of windows the worker opened or focused
  tracked,        \* the campaign events the worker delivered (deliverCampaignEvent)
  panel,          \* the preferences state of the settings panel (null before it loads)
  requests,       \* the update-preferences requests of the panel that are outstanding
  serverNow,      \* Date.now() of the push server, in seconds
  subscriptions,  \* the subscription documents a dispatch works on, in find() order
  category,       \* the category of the campaign being dispatched
  eligible,       \* list: what filterEligibleSubscriptions returned, once run
  subStore,            \* the subscriptions collection: documents with unique endpoint
  campaigns,           \* the campaigns collection: documents with unique _id
  campaignEvents,      \* the campaignEvents collection, in insertion order
  scheduledCampaigns,  \* the keys of the scheduledCampaigns Map
  timers,              \* the setTimeout timers of the process that have not fired
  dispatches,          \* the fan-outs in progress (dispatchCampaign, POST /start-sale)
  currentSale,         \* the currentSale object
  response,            \* status of the HTTP response written last; 0 before the first and
                       \* once a request has been taken up that is not answered at once
  served,              \* number of HTTP requests handled so far
  restarts             \* number of restarts of the server process so far

cacheVars == <<caches, lifecycle>>

durableVars == <<handler, settled, pending, toast, checkout>>

\* the orders collection, the notifications of the worker and the settings panel
restVars == <<orders, pushes, notifications, opened, tracked, panel, requests>>

pushVars == <<subStore, campaigns, campaignEvents, scheduledCampaigns, timers, dispatches,
              currentSale, response, served, restarts>>

serverVars == <<serverNow, subscriptions, category, eligible, pushVars>>

vars == <<now, store, passes, queued, net, inbox, syncReg, hasSync, cacheVars, durableVars, restVars, serverVars>>

\* a null or absent value (mutedUntil, expirationTime, a quiet-hours bound that does
\* not parse); instants and minutes of the day are never negative
Null == -1

NotRun == [run |-> FALSE, list |-> <<>>]

Dispatches == 1..MaxDispatches

\* A fan-out: pc is the await it is suspended at; campaign the object dispatchCampaign
\* was called with (_id is Null where no document was inserted, category, sendAt);
\* caller what called it; eligible the filtered audience; results[k] the state of
\* sendWebPush for eligible[k].  nth (how many dispatchCampaign calls the identity has
\* had) and event (the deliver event it recorded) are bookkeeping the code does not have.
IdleDispatch ==
  [pc |-> "idle", caller |-> "", campaign |-> [_id |-> Null, category |-> "", sendAt |-> Null],
   nth |-> 0, eligible |-> <<>>, results |-> <<>>, event |-> <<>>]

\* the two 'install' listeners and the two 'activate' listeners of sw.js: those of
\* lines 21-40 (VERSION flash-store-v3) and those of lines 388-414 (flash-store-v1)
Handlers == {"v3", "v1"}

\* the worker is activated (all four handlers are done) and no handler touches the
\* CacheStorage
CachesSettled ==
  /\ caches = {}
  /\ lifecycle = [phase |-> "activated", install |-> [h \in Handlers |-> "done"],
                  activate |-> [h \in Handlers |-> [pc |-> "done", todo |-> {}]]]

\* no QUEUE_CHECKOUT is being handled
IdleHandler == [pc |-> "idle", payload |-> <<>>]

\* the page has just mounted: nothing counted, no toast; no store operation was run
DurableIdle ==
  /\ handler = IdleHandler
  /\ settled = "none"
  /\ pending = 0
  /\ toast = [type |-> "none", order |-> Null]
  /\ checkout = [pc |-> "idle", order |-> Null]

\* no order was submitted, no push message arrived, the settings panel is closed
RestIdle ==
  /\ orders = {}
  /\ pushes = 0
  /\ notifications = {}
  /\ opened = 0
  /\ tracked = <<>>
  /\ panel = <<>>
  /\ requests = {}

\* let currentSale = { isActive: false, discount: 0 }
NoSale == [isActive |-> FALSE, discount |-> 0]

\* a process that has just started on empty collections
PushServerFresh ==
  /\ subStore = {}
  /\ campaigns = {}
  /\ campaignEvents = <<>>
  /\ scheduledCampaigns = {}
  /\ timers = {}
  /\ dispatches = [d \in Dispatches |-> IdleDispatch]
  /\ currentSale = NoSale
  /\ response = 0
  /\ served = 0
  /\ restarts = 0

\* no campaign is being dispatched
ServerIdle ==
  /\ serverNow = 0
  /\ subscriptions = <<>>
  /\ category = "flashSales"
  /\ eligible = NotRun
  /\ PushServerFresh

\* ---- IndexedDB helpers (sw.js 170-179) ----

Payload(id, body) == [id |-> id, body |-> body]

\* variant: an add that keeps the record already stored under the key
putKeepingOld(st, rec) == st \cup {rec}

\* store.put on an object store with keyPath 'id': replaces the record of that key
put(st, rec) == {r \in st : r.id # rec.id} \cup {rec}

\* enqueueCheckout(payload): put({id: payload.id, payload, queuedAt: Date.now()})
enqueueCheckout(st, payload, t) ==
  put(st, [id |-> payload.id, payload |-> payload, queuedAt |-> t])

\* variant: the record stays in the store
deleteQueuedCheckoutKeeping(st, id) == st

\* deleteQueuedCheckout(id): store.delete(id)
deleteQueuedCheckout(st, id) == {r \in st : r.id # id}

\* store.getAll(): every record, in ascending key order
RECURSIVE getAllQueuedCheckouts(_)
getAllQueuedCheckouts(st) ==
  IF st = {} THEN <<>>
  ELSE LET first == CHOOSE r \in st : \A q \in st : r.id <= q.id
       IN  <<first>> \o getAllQueuedCheckouts(st \ {first})

\* ---- processCheckoutQueue (sw.js 232-274) ----

\* const ageMinutes = (Date.now() - item.queuedAt) / (1000 * 60)
ageMinutes(item, t) == (t - item.queuedAt) * TICK_MINUTES

\* variant: expired from exactly 72 h on
isExpiredFromThreshold(item, t) == ageMinutes(item, t) >= EXPIRY_MINUTES

\* if (ageMinutes > 72 * 60)
isExpired(item, t) == ageMinutes(item, t) > EXPIRY_MINUTES

\* An invocation: pc is the await it is suspended at, queue the part of its snapshot
\* from the current item on.  The other fields are bookkeeping the code does not have:
\* completed (ids it wrote and deleted), dropped (ids it deleted as expired), stale
\* (the records that were expired when it read the queue), failed (its fetch failed),
\* clean (no other handler changed the store since it read the queue).
IdlePass ==
  [pc |-> "idle", queue |-> <<>>, completed |-> {}, dropped |-> {}, stale |-> {},
   failed |-> FALSE, clean |-> TRUE]

Running(p) == passes[p].pc # "idle"

\* the item the pass is working on
Cur(p) == Head(passes[p].queue)

\* The head of the for-loop with rest still to do: at the end of the snapshot the pass
\* calls sendQueueStatus(); an expired item goes to deleteQueuedCheckout, any other to
\* fetch.
LoopHead(ps, rest, t) ==
  IF rest = <<>> THEN [ps EXCEPT !.pc = "status", !.queue = rest]
  ELSE IF isExpired(Head(rest), t) THEN [ps EXCEPT !.pc = "expDelete", !.queue = rest]
  ELSE [ps EXCEPT !.pc = "fetch", !.queue = rest]

\* bookkeeping: a handler other than pass p changed the store
Disturb(ps, p, changed) ==
  [q \in Passes |->
     IF changed /\ q # p /\ ps[q].pc # "idle" THEN [ps[q] EXCEPT !.clean = FALSE] ELSE ps[q]]

\* processCheckoutQueue() is called and its first getAllQueuedCheckouts() resolves; on
\* an empty queue it broadcasts CHECKOUT_SYNC_PENDING {count: 0} and returns.
\* (The model gives a new invocation the lowest free slot.)
StartPass(p) ==
  /\ ~Running(p)
  /\ \A q \in Passes : q < p => Running(q)
  /\ LET queue == getAllQueuedCheckouts(store)
     IN IF Len(queue) = 0
        THEN passes' = passes
        ELSE passes' = [passes EXCEPT ![p] =
               LoopHead([IdlePass EXCEPT
                           !.stale = {r \in store : isExpired(r, now)}],
                        queue, now)]

\* the transaction of deleteQueuedCheckout(item.id) for an expired item commits
ExpiredDelete(p) ==
  /\ passes[p].pc = "expDelete"
  /\ store' = deleteQueuedCheckout(store, Cur(p).id)
  /\ passes' = [Disturb(passes, p, store' # store) EXCEPT ![p].pc = "expNotify"]
  /\ UNCHANGED <<now, queued, net, inbox, syncReg, hasSync, cacheVars, durableVars, restVars, serverVars>>

\* broadcastMessage({CHECKOUT_SYNC_COMPLETE, success: false, reason: 'expired'}); continue
ExpiredNotify(p) ==
  /\ passes[p].pc = "expNotify"
  /\ passes' = [passes EXCEPT ![p] =
       LoopHead([passes[p] EXCEPT !.dropped = @ \cup {Cur(p).id}], Tail(passes[p].queue), now)]
  /\ UNCHANGED <<now, store, queued, net, inbox, syncReg, hasSync, cacheVars, durableVars, restVars, serverVars>>

\* fetch(POST /orders) resolves with a 2xx response
FetchOk(p) ==
  /\ passes[p].pc = "fetch"
  /\ net = "up"
  /\ passes' = [passes EXCEPT ![p].pc = "okDelete"]
  /\ UNCHANGED <<now, store, queued, net, inbox, syncReg, hasSync, cacheVars, durableVars, restVars, serverVars>>

\* variant: the catch block goes on with the next item instead of breaking
onFetchFailureContinue(ps, t) == LoopHead([ps EXCEPT !.failed = TRUE], Tail(ps.queue), t)

\* what the pass does when its fetch rejects or resolves non-2xx: catch, break, and
\* sendQueueStatus() is called
onFetchFailure(ps, t) == [ps EXCEPT !.pc = "status", !.failed = TRUE]

FetchFail(p) ==
  /\ passes[p].pc = "fetch"
  /\ net # "up"
  /\ passes' = [passes EXCEPT ![p] = onFetchFailure(passes[p], now)]
  /\ UNCHANGED <<now, store, queued, net, inbox, syncReg, hasSync, cacheVars, durableVars, restVars, serverVars>>

\* the transaction of deleteQueuedCheckout(item.id) after a successful write commits
SuccessDelete(p) ==
  /\ passes[p].pc = "okDelete"
  /\ store' = deleteQueuedCheckout(store, Cur(p).id)
  /\ passes' = [Disturb(passes, p, store' # store) EXCEPT ![p].pc = "okNotify"]
  /\ UNCHANGED <<now, queued, net, inbox, syncReg, hasSync, cacheVars, durableVars, restVars, serverVars>>

\* broadcastMessage({CHECKOUT_SYNC_COMPLETE, success: true, order}); next iteration
SuccessNotify(p) ==
  /\ passes[p].pc = "okNotify"
  /\ passes' = [passes EXCEPT ![p] =
       LoopHead([passes[p] EXCEPT !.completed = @ \cup {Cur(p).id}], Tail(passes[p].queue), now)]
  /\ UNCHANGED <<now, store, queued, net, inbox, syncReg, hasSync, cacheVars, durableVars, restVars, serverVars>>

\* sendQueueStatus(): the queue is read and CHECKOUT_SYNC_PENDING {count} broadcast;
\* the invocation is over
FinalStatus(p) ==
  /\ passes[p].pc = "status"
  /\ passes' = [passes EXCEPT ![p] = IdlePass]
  /\ UNCHANGED <<now, store, queued, net, inbox, syncReg, hasSync, cacheVars, durableVars, restVars, serverVars>>

PassStep(p) ==
  \/ ExpiredDelete(p)
  \/ ExpiredNotify(p)
  \/ FetchOk(p)
  \/ FetchFail(p)
  \/ SuccessDelete(p)
  \/ SuccessNotify(p)
  \/ FinalStatus(p)

\* ---- the messages a step posts to the clients ----

\* pass p takes a step (every step of an invocation moves it to another await)
Acts(p) == passes'[p].pc # passes[p].pc

\* pass p broadcasts CHECKOUT_SYNC_COMPLETE {success, order: Cur(p).payload} in this step
Completes(p, success) ==
  /\ passes[p].pc = (IF success THEN "okNotify" ELSE "expNotify")
  /\ Acts(p)

\* pass p broadcasts its final CHECKOUT_SYNC_PENDING {count} in this step
ReportsPending(p, count) ==
  /\ passes[p].pc = "status"
  /\ Acts(p)
  /\ count = Len(getAllQueuedCheckouts(store))

\* ---- the worker's event listeners (sw.js 208-230, 276-280) ----

\* 'message' listener, QUEUE_CHECKOUT: await enqueueCheckout(data.payload); the
\* sendQueueStatus(source.id) that follows reads the store and posts to the sender
onQueueCheckout(payload) ==
  /\ queued < MaxCheckouts
  /\ queued' = queued + 1
  /\ store' = enqueueCheckout(store, payload, now)
  /\ passes' = Disturb(passes, 0, store' # store)
  /\ UNCHANGED <<now, net, hasSync, cacheVars, durableVars, restVars, serverVars>>

\* 'message' listener, TRIGGER_CHECKOUT_SYNC: processCheckoutQueue()
onTriggerCheckoutSync(p) ==
  /\ StartPass(p)
  /\ UNCHANGED <<now, store, queued, net, hasSync, cacheVars, durableVars, restVars, serverVars>>

\* 'sync' listener, tag 'checkout-sync': processCheckoutQueue()
onSync(p) ==
  /\ StartPass(p)
  /\ UNCHANGED <<now, store, queued, net, hasSync, cacheVars, durableVars, restVars, serverVars>>

\* ---- the worker on its own: messages and sync events arrive at any time ----

MessageQueueCheckout ==
  \E id \in 1..MaxId, body \in 1..MaxBody :
    onQueueCheckout(Payload(id, body)) /\ UNCHANGED <<inbox, syncReg>>

MessageTriggerCheckoutSync ==
  \E p \in Passes : onTriggerCheckoutSync(p) /\ UNCHANGED <<inbox, syncReg>>

\* The SyncManager does not fire a tag again while the event of its previous firing is
\* being handled.  (A sync event that arrives during a pass a message started acts as
\* a TRIGGER_CHECKOUT_SYNC message does.)
SyncEvent ==
  /\ \A q \in Passes : ~Running(q)
  /\ \E p \in Passes : onSync(p)
  /\ UNCHANGED <<inbox, syncReg>>

\* the order endpoint starts or stops answering 2xx (for the worker, being offline
\* and the endpoint failing are the same: the fetch fails)
ServerFlip ==
  /\ net # "offline"
  /\ net' = IF net = "up" THEN "down" ELSE "up"
  /\ UNCHANGED <<now, store, passes, queued, inbox, syncReg, hasSync, cacheVars, durableVars, restVars, serverVars>>

Tick ==
  /\ now < MaxNow
  /\ now' = now + 1
  /\ UNCHANGED <<store, passes, queued, net, inbox, syncReg, hasSync, cacheVars, durableVars, restVars, serverVars>>

\* A fresh installation: the queue is empty and nothing is in progress.
Init ==
  /\ now = 0
  /\ store = {}
  /\ passes = [p \in Passes |-> IdlePass]
  /\ queued = 0
  /\ net = "up"
  /\ inbox = <<>>
  /\ syncReg = FALSE
  /\ hasSync = FALSE
  /\ DurableIdle
  /\ RestIdle
  /\ CachesSettled
  /\ ServerIdle

Next ==
  \/ MessageQueueCheckout
  \/ MessageTriggerCheckoutSync
  \/ SyncEvent
  \/ \E p \in Passes : PassStep(p)
  \/ ServerFlip
  \/ Tick

Spec == Init /\ [][Next]_vars

\* ---- the storefront page (App.tsx 94-106 and 183-252, services/api.ts 307-321) ----

\* queueOfflineCheckout(payload): post QUEUE_CHECKOUT to the worker, then register the
\* 'checkout-sync' tag when registration.sync exists
queueOfflineCheckout(payload) ==
  /\ Len(inbox) < MaxInbox
  /\ inbox' = Append(inbox, [type |-> "QUEUE_CHECKOUT", payload |-> payload])
  /\ syncReg' = (syncReg \/ hasSync)

\* handleCheckout: offline the order is queued; online submitOrder is tried first and
\* the order is queued when that fails
handleCheckout(id, body) ==
  /\ IF net = "up"
     THEN UNCHANGED <<inbox, syncReg>>
     ELSE queueOfflineCheckout(Payload(id, body))
  /\ UNCHANGED <<now, store, passes, queued, net, hasSync, cacheVars, durableVars, restVars, serverVars>>

\* useConnectivity's 'offline' listener
GoOffline ==
  /\ net # "offline"
  /\ net' = "offline"
  /\ UNCHANGED <<now, store, passes, queued, inbox, syncReg, hasSync, cacheVars, durableVars, restVars, serverVars>>

\* variant: no fallback message when registration.sync is missing
requestReplayWithoutFallback(box) ==
  syncReg' = (syncReg \/ hasSync) /\ inbox' = box

\* the Storefront effect on isOnline: register the sync tag when registration.sync
\* exists, else post TRIGGER_CHECKOUT_SYNC to the active worker
requestReplay(box) ==
  IF hasSync
  THEN syncReg' = TRUE /\ inbox' = box
  ELSE syncReg' = syncReg /\ inbox' = Append(box, [type |-> "TRIGGER_CHECKOUT_SYNC"])

\* useConnectivity's 'online' listener sets isOnline, which runs the effect
GoOnline(state) ==
  /\ net = "offline"
  /\ net' = state
  /\ (hasSync \/ Len(inbox) < MaxInbox)
  /\ requestReplay(inbox)
  /\ UNCHANGED <<now, store, passes, queued, hasSync, cacheVars, durableVars, restVars, serverVars>>

\* the worker's 'message' listener takes the next posted message
DeliverQueueCheckout ==
  /\ inbox # <<>>
  /\ Head(inbox).type = "QUEUE_CHECKOUT"
  /\ onQueueCheckout(Head(inbox).payload)
  /\ inbox' = Tail(inbox)
  /\ UNCHANGED syncReg

\* CHECKOUT_SYNC_STATUS_REQUEST: sendQueueStatus(source.id) reads the store and posts
\* CHECKOUT_SYNC_PENDING to the sender
DeliverStatusRequest ==
  /\ inbox # <<>>
  /\ Head(inbox).type = "CHECKOUT_SYNC_STATUS_REQUEST"
  /\ inbox' = Tail(inbox)
  /\ UNCHANGED <<now, store, passes, queued, net, syncReg, hasSync, cacheVars, durableVars, restVars, serverVars>>

DeliverTriggerCheckoutSync ==
  /\ inbox # <<>>
  /\ Head(inbox).type = "TRIGGER_CHECKOUT_SYNC"
  /\ \E p \in Passes : onTriggerCheckoutSync(p)
  /\ inbox' = Tail(inbox)
  /\ UNCHANGED syncReg

\* The SyncManager fires the pending registration once the browser is online, and not
\* while the event of its previous firing is being handled (with registration.sync the
\* page starts passes through sync events only).  The handler's promise settles
\* without rejecting, so the registration is done with.  The worker takes its events
\* in the order they were raised: a QUEUE_CHECKOUT posted before the firing has been
\* stored when the pass reads the queue.
FireSync ==
  /\ syncReg
  /\ net # "offline"
  /\ \A k \in 1..Len(inbox) : inbox[k].type # "QUEUE_CHECKOUT"
  /\ \A q \in Passes : ~Running(q)
  /\ \E p \in Passes : onSync(p)
  /\ syncReg' = FALSE
  /\ UNCHANGED inbox

\* The Storefront has just mounted on a fresh installation: when online its effect
\* asked for a replay, and it asked the worker for the queue status.
InitApp ==
  /\ now = 0
  /\ store = {}
  /\ passes = [p \in Passes |-> IdlePass]
  /\ queued = 0
  /\ net \in {"offline", "down", "up"}
  /\ hasSync \in BOOLEAN
  /\ DurableIdle
  /\ RestIdle
  /\ CachesSettled
  /\ syncReg = (hasSync /\ net # "offline")
  /\ inbox = (IF ~hasSync /\ net # "offline"
              THEN <<[type |-> "TRIGGER_CHECKOUT_SYNC"]>> ELSE <<>>)
             \o <<[type |-> "CHECKOUT_SYNC_STATUS_REQUEST"]>>
  /\ ServerIdle

NextApp ==
  \/ \E id \in 1..MaxAppId, body \in 1..MaxBody : handleCheckout(id, body)
  \/ GoOffline
  \/ \E state \in {"down", "up"} : GoOnline(state)
  \/ DeliverQueueCheckout
  \/ DeliverStatusRequest
  \/ DeliverTriggerCheckoutSync
  \/ FireSync
  \/ \E p \in Passes : PassStep(p)
  \/ ServerFlip
  \/ Tick

SpecApp == InitApp /\ [][NextApp]_vars

\* ---- the queue with storage failures (sw.js 140-194, App.tsx 130-149, 206-246) ----

\* How the transaction of a withStore call ends: "complete" (tx.oncomplete), "abort"
\* (the commit fails: tx.onabort), "error" (a request fails: its error event reaches
\* tx.onerror, and the transaction aborts after the handlers have run).  The operations
\* of the three helpers do not throw for a payload with an id.
Fates == {"complete", "abort", "error"}

\* variant: tx.onabort resolves like tx.oncomplete
withStoreResolvingOnAbort(st, after, fate) ==
  CASE fate = "complete" -> [store |-> after, settled |-> "resolved"]
    [] fate = "abort" -> [store |-> st, settled |-> "resolved"]
    [] fate = "error" -> [store |-> st, settled |-> "rejectedNull"]

\* withStore(storeName, mode, operation): after is the content the writes of operation
\* lead to.  IndexedDB commits all of a transaction or nothing.  tx.oncomplete resolves;
\* tx.onabort rejects with tx.error; tx.onerror rejects with tx.error too, which is still
\* null while the error event of the request is being dispatched.
withStore(st, after, fate) ==
  CASE fate = "complete" -> [store |-> after, settled |-> "resolved"]
    [] fate = "abort" -> [store |-> st, settled |-> "rejected"]
    [] fate = "error" -> [store |-> st, settled |-> "rejectedNull"]

Rejected(outcome) == outcome \in {"rejected", "rejectedNull"}

\* handleCheckout while offline or after submitOrder failed: queueOfflineCheckout posts
\* QUEUE_CHECKOUT; without Background Sync it resolves at once, the order is counted
\* and the toast says it is queued; with Background Sync it awaits sync.register first
checkoutQueued(id) ==
  /\ net # "up"
  /\ checkout.pc = "idle"
  /\ pending < MaxCheckouts
  /\ queueOfflineCheckout(Payload(id, 1))
  /\ IF hasSync
     THEN /\ checkout' = [pc |-> "registering", order |-> id]
          /\ UNCHANGED <<pending, toast>>
     ELSE /\ pending' = pending + 1
          /\ toast' = [type |-> "queued", order |-> id]
          /\ UNCHANGED checkout
  /\ UNCHANGED <<now, store, passes, queued, net, hasSync, cacheVars, restVars, handler, settled, serverVars>>

\* registration.sync.register settles (a rejection is caught), queueOfflineCheckout
\* resolves: pendingSyncRef.current += 1 and the toast says the order is queued
checkoutCounted ==
  /\ checkout.pc = "registering"
  /\ checkout' = [pc |-> "idle", order |-> Null]
  /\ pending' = pending + 1
  /\ toast' = [type |-> "queued", order |-> checkout.order]
  /\ UNCHANGED <<now, store, passes, queued, net, inbox, syncReg, hasSync, cacheVars, restVars,
                 handler, settled, serverVars>>

\* handleMessage of the page, CHECKOUT_SYNC_COMPLETE
onSyncComplete(count) == IF count > 0 THEN count - 1 ELSE 0

\* 'message' listener, QUEUE_CHECKOUT: the transaction of enqueueCheckout(data.payload)
\* ends.  When it rejects the handler is over: nothing is posted to the sender.
enqueueSettles(fate) ==
  /\ inbox # <<>>
  /\ Head(inbox).type = "QUEUE_CHECKOUT"
  /\ handler.pc = "idle"
  /\ queued < MaxCheckouts
  /\ queued' = queued + 1
  /\ inbox' = Tail(inbox)
  /\ LET payload == Head(inbox).payload
         tx == withStore(store, enqueueCheckout(store, payload, now), fate)
     IN  /\ store' = tx.store
         /\ settled' = tx.settled
         /\ handler' = IF Rejected(tx.settled) THEN IdleHandler
                       ELSE [pc |-> "status", payload |-> payload]
         /\ passes' = Disturb(passes, 0, tx.store # store)
  /\ UNCHANGED <<now, net, syncReg, hasSync, cacheVars, restVars, checkout, pending, toast, serverVars>>

\* sendQueueStatus(source.id) of that handler: the transaction of getAllQueuedCheckouts
\* ends; CHECKOUT_SYNC_PENDING {count: queue.length} is posted to the sender, whose
\* handleMessage sets pendingSyncRef.current to the count
statusSettles(fate) ==
  /\ handler.pc = "status"
  /\ handler' = IdleHandler
  /\ LET tx == withStore(store, store, fate)
     IN  /\ settled' = tx.settled
         /\ pending' = IF Rejected(tx.settled) THEN pending
                       ELSE Len(getAllQueuedCheckouts(store))
  /\ UNCHANGED <<now, store, passes, queued, net, inbox, syncReg, hasSync, cacheVars, restVars, checkout, toast, serverVars>>

\* processCheckoutQueue() is called (a TRIGGER_CHECKOUT_SYNC message or a sync event)
\* and the transaction of its getAllQueuedCheckouts() ends: when it rejects the call
\* is over; on an empty queue CHECKOUT_SYNC_PENDING {count: 0} is broadcast
replayStarts(p, fate) ==
  /\ ~Running(p)
  /\ LET tx == withStore(store, store, fate)
         queue == getAllQueuedCheckouts(store)
     IN  /\ settled' = tx.settled
         /\ IF Rejected(tx.settled) THEN passes' = passes /\ pending' = pending
            ELSE IF Len(queue) = 0 THEN passes' = passes /\ pending' = 0
            ELSE /\ passes' = [passes EXCEPT ![p] =
                      LoopHead([IdlePass EXCEPT !.stale = {r \in store : isExpired(r, now)}],
                               queue, now)]
                 /\ pending' = pending
  /\ syncReg' \in {syncReg, FALSE}   \* a sync event uses up the registration
  /\ UNCHANGED <<now, store, queued, net, inbox, hasSync, cacheVars, restVars, checkout, handler, toast, serverVars>>

\* the transaction of deleteQueuedCheckout(item.id) for an expired item ends: the await
\* is outside the try block, so when it rejects processCheckoutQueue rejects
expiredDeleteSettles(p, fate) ==
  /\ passes[p].pc = "expDelete"
  /\ LET tx == withStore(store, deleteQueuedCheckout(store, Cur(p).id), fate)
     IN  /\ store' = tx.store
         /\ settled' = tx.settled
         /\ passes' = IF Rejected(tx.settled) THEN [passes EXCEPT ![p] = IdlePass]
                      ELSE [Disturb(passes, p, tx.store # store) EXCEPT ![p].pc = "expNotify"]
  /\ UNCHANGED <<now, queued, net, inbox, syncReg, hasSync, cacheVars, restVars, checkout, handler, pending, toast, serverVars>>

\* broadcastMessage({CHECKOUT_SYNC_COMPLETE, success: false, reason: 'expired'}); the
\* page counts one order less and shows the error toast
expiredNotified(p) ==
  /\ passes[p].pc = "expNotify"
  /\ passes' = [passes EXCEPT ![p] =
       LoopHead([passes[p] EXCEPT !.dropped = @ \cup {Cur(p).id}], Tail(passes[p].queue), now)]
  /\ pending' = onSyncComplete(pending)
  /\ toast' = [type |-> "notSent", order |-> Cur(p).id]
  /\ UNCHANGED <<now, store, queued, net, inbox, syncReg, hasSync, cacheVars, restVars, checkout, handler, settled, serverVars>>

\* the transaction of deleteQueuedCheckout(item.id) after a successful write ends: the
\* await is inside the try block, so when it rejects the pass breaks out of the loop
successDeleteSettles(p, fate) ==
  /\ passes[p].pc = "okDelete"
  /\ LET tx == withStore(store, deleteQueuedCheckout(store, Cur(p).id), fate)
     IN  /\ store' = tx.store
         /\ settled' = tx.settled
         /\ passes' = IF Rejected(tx.settled)
                      THEN [passes EXCEPT ![p] = onFetchFailure(passes[p], now)]
                      ELSE [Disturb(passes, p, tx.store # store) EXCEPT ![p].pc = "okNotify"]
  /\ UNCHANGED <<now, queued, net, inbox, syncReg, hasSync, cacheVars, restVars, checkout, handler, pending, toast, serverVars>>

\* broadcastMessage({CHECKOUT_SYNC_COMPLETE, success: true, order}); the page counts one
\* order less and shows the success toast
successNotified(p) ==
  /\ passes[p].pc = "okNotify"
  /\ passes' = [passes EXCEPT ![p] =
       LoopHead([passes[p] EXCEPT !.completed = @ \cup {Cur(p).id}], Tail(passes[p].queue), now)]
  /\ pending' = onSyncComplete(pending)
  /\ toast' = [type |-> "sent", order |-> Cur(p).id]
  /\ UNCHANGED <<now, store, queued, net, inbox, syncReg, hasSync, cacheVars, restVars, checkout, handler, settled, serverVars>>

\* sendQueueStatus() at the end of the pass: the transaction of getAllQueuedCheckouts
\* ends, CHECKOUT_SYNC_PENDING {count: queue.length} is broadcast and the page sets its
\* count; when the read rejects nothing is broadcast
finalStatusSettles(p, fate) ==
  /\ passes[p].pc = "status"
  /\ passes' = [passes EXCEPT ![p] = IdlePass]
  /\ LET tx == withStore(store, store, fate)
     IN  /\ settled' = tx.settled
         /\ pending' = IF Rejected(tx.settled) THEN pending
                       ELSE Len(getAllQueuedCheckouts(store))
  /\ UNCHANGED <<now, store, queued, net, inbox, syncReg, hasSync, cacheVars, restVars, checkout, handler, toast, serverVars>>

\* the page is open on a fresh installation, in a browser with or without Background
\* Sync, while POST /orders fails
InitDurable ==
  /\ now = 0
  /\ store = {}
  /\ passes = [p \in Passes |-> IdlePass]
  /\ queued = 0
  /\ net = "down"
  /\ inbox = <<>>
  /\ syncReg = FALSE
  /\ hasSync \in BOOLEAN
  /\ DurableIdle
  /\ RestIdle
  /\ CachesSettled
  /\ ServerIdle

\* one replay pass at a time
NextDurable ==
  \/ \E id \in 1..MaxDurableId : checkoutQueued(id)
  \/ checkoutCounted
  \/ \E fate \in Fates : enqueueSettles(fate)
  \/ \E fate \in Fates : statusSettles(fate)
  \/ \E fate \in Fates : replayStarts(1, fate)
  \/ \E fate \in Fates : expiredDeleteSettles(1, fate)
  \/ expiredNotified(1)
  \/ FetchOk(1)
  \/ FetchFail(1)
  \/ \E fate \in Fates : successDeleteSettles(1, fate)
  \/ successNotified(1)
  \/ \E fate \in Fates : finalStatusSettles(1, fate)
  \/ ServerFlip
  \/ Tick

SpecDurable == InitDurable /\ [][NextDurable]_vars

\* ---- install and activate: the caches (sw.js 5-40 and 381-414) ----

\* A cache name is the sequence of the parts it is put together from.
VERSION == <<"flash-store-v3">>

\* `flash-shell-${VERSION}`
APP_SHELL_CACHE == <<"flash-shell-">> \o VERSION

APP_SHELL_ASSETS == {"/", "/index.html", "/manifest.json", "/offline.html"}

CACHE_NAME == <<"flash-store-v1">>

\* cacheName.includes(VERSION), for names made of such parts
includes(cacheName, part) ==
  \E k \in 1..Len(cacheName) : SubSeq(cacheName, k, k + Len(part) - 1) = part

\* what the CacheStorage may hold when the worker is installed: the shell cache of the
\* version before, the runtime cache of this version (`flash-runtime-${VERSION}`) that
\* an earlier run of the worker filled, and a cache named CACHE_NAME
LeftoverCaches ==
  { [name |-> <<"flash-shell-", "flash-store-v2">>, entries |-> {"/"}],
    [name |-> <<"flash-runtime-">> \o VERSION, entries |-> {"/api/products"}],
    [name |-> CACHE_NAME, entries |-> {"/"}] }

\* the name of the cache of the 'install' listener h
installCache(h) == IF h = "v3" THEN APP_SHELL_CACHE ELSE CACHE_NAME

\* caches.keys()
keys(cs) == {c.name : c \in cs}

\* caches.open(name): the cache of that name, created empty when there is none
open(cs, name) == IF name \in keys(cs) THEN cs ELSE cs \cup {[name |-> name, entries |-> {}]}

\* cache.addAll(assets) on the cache of that name
addAll(cs, name, assets) ==
  {IF c.name = name THEN [c EXCEPT !.entries = @ \cup assets] ELSE c : c \in cs}

\* caches.delete(name)
delete(cs, name) == {c \in cs : c.name # name}

\* the install event is dispatched: both listeners call caches.open and hand their
\* promise to event.waitUntil
InstallEvent ==
  /\ lifecycle.phase = "parsed"
  /\ lifecycle' = [lifecycle EXCEPT !.phase = "installing",
                                    !.install = [h \in Handlers |-> "open"]]
  /\ UNCHANGED caches
  /\ UNCHANGED <<now, store, passes, queued, net, inbox, syncReg, hasSync, durableVars, restVars,
                 serverVars>>

\* caches.open of listener h resolves and it calls cache.addAll
OpenResolves(h) ==
  /\ lifecycle.phase = "installing"
  /\ lifecycle.install[h] = "open"
  /\ caches' = open(caches, installCache(h))
  /\ lifecycle' = [lifecycle EXCEPT !.install[h] = "addAll"]
  /\ UNCHANGED <<now, store, passes, queued, net, inbox, syncReg, hasSync, durableVars, restVars,
                 serverVars>>

\* cache.addAll of listener h resolves: every asset (APP_SHELL_ASSETS, APP_SHELL) was
\* fetched and stored
AddAllResolves(h) ==
  /\ lifecycle.phase = "installing"
  /\ lifecycle.install[h] = "addAll"
  /\ caches' = addAll(caches, installCache(h),
                      IF h = "v3" THEN APP_SHELL_ASSETS
                      ELSE {"/", "/index.html", "/manifest.json"})
  /\ lifecycle' = [lifecycle EXCEPT !.install[h] = "done"]
  /\ UNCHANGED <<now, store, passes, queued, net, inbox, syncReg, hasSync, durableVars, restVars,
                 serverVars>>

\* cache.addAll of listener h rejects (an asset could not be fetched): the install
\* fails and the worker is discarded
AddAllRejects(h) ==
  /\ lifecycle.phase = "installing"
  /\ lifecycle.install[h] = "addAll"
  /\ lifecycle' = [lifecycle EXCEPT !.phase = "redundant"]
  /\ UNCHANGED caches
  /\ UNCHANGED <<now, store, passes, queued, net, inbox, syncReg, hasSync, durableVars, restVars,
                 serverVars>>

\* both install promises have resolved (and skipWaiting() was called): the activate
\* event is dispatched and both listeners call caches.keys()
ActivateEvent ==
  /\ lifecycle.phase = "installing"
  /\ \A h \in Handlers : lifecycle.install[h] = "done"
  /\ lifecycle' = [lifecycle EXCEPT !.phase = "activating",
                     !.activate = [h \in Handlers |-> [pc |-> "keys", todo |-> {}]]]
  /\ UNCHANGED caches
  /\ UNCHANGED <<now, store, passes, queued, net, inbox, syncReg, hasSync, durableVars, restVars,
                 serverVars>>

\* caches.keys() of listener h resolves and it calls caches.delete for every name it
\* takes for stale
KeysResolves(h) ==
  /\ lifecycle.phase = "activating"
  /\ lifecycle.activate[h].pc = "keys"
  /\ lifecycle' = [lifecycle EXCEPT !.activate[h] =
       [pc |-> "delete",
        \* .filter((cacheName) => !cacheName.includes(VERSION)); if (cache !== CACHE_NAME)
        todo |-> IF h = "v3" THEN {name \in keys(caches) : ~includes(name, VERSION)}
                 ELSE {name \in keys(caches) : name # CACHE_NAME}]]
  /\ UNCHANGED caches
  /\ UNCHANGED <<now, store, passes, queued, net, inbox, syncReg, hasSync, durableVars, restVars,
                 serverVars>>

\* one caches.delete of listener h resolves
DeleteResolves(h, name) ==
  /\ lifecycle.phase = "activating"
  /\ lifecycle.activate[h].pc = "delete"
  /\ name \in lifecycle.activate[h].todo
  /\ caches' = delete(caches, name)
  /\ lifecycle' = [lifecycle EXCEPT !.activate[h].todo = @ \ {name}]
  /\ UNCHANGED <<now, store, passes, queued, net, inbox, syncReg, hasSync, durableVars, restVars,
                 serverVars>>

\* Promise.all of listener h resolves (v3 then awaits clients.claim()); the worker is
\* activated when the promises of both listeners have resolved
ActivateSettles(h) ==
  /\ lifecycle.phase = "activating"
  /\ lifecycle.activate[h].pc = "delete"
  /\ lifecycle.activate[h].todo = {}
  /\ lifecycle' =
       [lifecycle EXCEPT
          !.activate[h].pc = "done",
          !.phase = IF \A g \in Handlers \ {h} : lifecycle.activate[g].pc = "done"
                    THEN "activated" ELSE @]
  /\ UNCHANGED caches
  /\ UNCHANGED <<now, store, passes, queued, net, inbox, syncReg, hasSync, durableVars, restVars,
                 serverVars>>



\* the browser has fetched sw.js of version flash-store-v3 and is about to install it
InitCache ==
  /\ now = 0
  /\ store = {}
  /\ passes = [p \in Passes |-> IdlePass]
  /\ queued = 0
  /\ net = "up"
  /\ inbox = <<>>
  /\ syncReg = FALSE
  /\ hasSync = FALSE
  /\ caches \in SUBSET LeftoverCaches
  /\ lifecycle = [phase |-> "parsed", install |-> [h \in Handlers |-> "idle"],
                  activate |-> [h \in Handlers |-> [pc |-> "idle", todo |-> {}]]]
  /\ DurableIdle
  /\ RestIdle
  /\ ServerIdle

NextCache ==
  \/ InstallEvent
  \/ \E h \in Handlers : OpenResolves(h)
  \/ \E h \in Handlers : AddAllResolves(h)
  \/ \E h \in Handlers : AddAllRejects(h)
  \/ ActivateEvent
  \/ \E h \in Handlers : KeysResolves(h)
  \/ \E h \in Handlers :
       \E name \in keys(LeftoverCaches) \cup {APP_SHELL_CACHE, CACHE_NAME} :
         DeleteResolves(h, name)
  \/ \E h \in Handlers : ActivateSettles(h)

SpecCache == InitCache /\ [][NextCache]_vars

\* ---- the audience filter of the push server (server/index.js 117-157) ----

\* A string is a sequence of characters; the empty string stands for every falsy value.
DigitChars == <<"0", "1", "2", "3", "4", "5", "6", "7", "8", "9">>

IsDigit(c) == \E k \in 1..Len(DigitChars) : DigitChars[k] = c

\* Number() of a one-digit string
DigitValue(c) == (CHOOSE k \in 1..Len(DigitChars) : DigitChars[k] = c) - 1

\* variant: an hour of one digit is accepted too
minutesFromHMM(value) ==
  IF Len(value) = 4 /\ IsDigit(value[1]) /\ value[2] = ":" /\ IsDigit(value[3]) /\ IsDigit(value[4])
  THEN DigitValue(value[1]) * 60 + DigitValue(value[3]) * 10 + DigitValue(value[4])
  ELSE IF \/ value = <<>>
          \/ Len(value) # 5
          \/ ~IsDigit(value[1]) \/ ~IsDigit(value[2])
          \/ value[3] # ":"
          \/ ~IsDigit(value[4]) \/ ~IsDigit(value[5])
  THEN Null
  ELSE (DigitValue(value[1]) * 10 + DigitValue(value[2])) * 60
       + DigitValue(value[4]) * 10 + DigitValue(value[5])

\* if (!value || !/^\d{2}:\d{2}$/.test(value)) return null;
\* const [hours, minutes] = value.split(":").map(Number); return hours * 60 + minutes
minutesFromHHMM(value) ==
  IF \/ value = <<>>
     \/ Len(value) # 5
     \/ ~IsDigit(value[1]) \/ ~IsDigit(value[2])
     \/ value[3] # ":"
     \/ ~IsDigit(value[4]) \/ ~IsDigit(value[5])
  THEN Null
  ELSE (DigitValue(value[1]) * 10 + DigitValue(value[2])) * 60
       + DigitValue(value[4]) * 10 + DigitValue(value[5])

\* Intl.DateTimeFormat("en-GB", {hour, minute, hour12: false, timeZone}).format(t),
\* split at ":" and turned into minutes since local midnight (Asia/Kolkata is 330
\* minutes ahead of UTC; no time zone of the model has DST)
localMinutes(t, timezone) ==
  ((t \div 60) + (IF timezone = "Asia/Kolkata" THEN 330 ELSE 0)) % (24 * 60)

\* variant: the end of the window belongs to it
isWithinQuietHoursInclusive(preferences, t) ==
  LET quiet == preferences.quietHours
      currentMinutes == localMinutes(t, IF quiet.timezone = "" THEN "UTC" ELSE quiet.timezone)
      start == minutesFromHHMM(quiet.start)
      end == minutesFromHHMM(quiet.end)
  IN  IF ~quiet.enabled THEN FALSE
      ELSE IF start = Null \/ end = Null THEN FALSE
      ELSE IF start <= end THEN currentMinutes >= start /\ currentMinutes <= end
      ELSE currentMinutes >= start \/ currentMinutes <= end

isWithinQuietHours(preferences, t) ==
  LET quiet == preferences.quietHours
      currentMinutes == localMinutes(t, IF quiet.timezone = "" THEN "UTC" ELSE quiet.timezone)
      start == minutesFromHHMM(quiet.start)
      end == minutesFromHHMM(quiet.end)
  IN  IF ~quiet.enabled THEN FALSE
      ELSE IF start = Null \/ end = Null THEN FALSE
      ELSE IF start <= end THEN currentMinutes >= start /\ currentMinutes < end
      ELSE currentMinutes >= start \/ currentMinutes < end

\* if (!preferences.mutedUntil) return false;
\* return new Date(preferences.mutedUntil).getTime() > Date.now()
isTemporarilyMuted(preferences, t) ==
  IF preferences.mutedUntil = Null THEN FALSE ELSE preferences.mutedUntil > t

\* if (sub.expirationTime && new Date(sub.expirationTime).getTime() < Date.now()) return false
isPastExpiration(sub, t) == sub.expirationTime # Null /\ sub.expirationTime < t

\* subscriptions.filter(...): the four tests of the callback
filterEligibleSubscriptions(subs, cat, t) ==
  SelectSeq(subs, LAMBDA sub : /\ sub.preferences[cat]
                               /\ ~isTemporarilyMuted(sub.preferences, t)
                               /\ ~isWithinQuietHours(sub.preferences, t)
                               /\ ~isPastExpiration(sub, t))

\* ---- the inputs of the filter ----

\* "22:00", "08:00", and "8:00", which is not HH:MM
HHMM2200 == <<"2", "2", ":", "0", "0">>
HHMM0800 == <<"0", "8", ":", "0", "0">>
HMM800 == <<"8", ":", "0", "0">>

\* /^\d{2}:\d{2}$/.test(value)
IsHHMM(value) ==
  /\ Len(value) = 5
  /\ IsDigit(value[1]) /\ IsDigit(value[2])
  /\ value[3] = ":"
  /\ IsDigit(value[4]) /\ IsDigit(value[5])

\* the instant hh:mm UTC of the first day
AtUTC(hh, mm) == (hh * 60 + mm) * 60

QuietHoursSpace ==
  { [enabled |-> FALSE, start |-> HHMM2200, end |-> HHMM0800, timezone |-> "UTC"],
    [enabled |-> TRUE, start |-> HHMM2200, end |-> HHMM0800, timezone |-> ""],
    [enabled |-> TRUE, start |-> HHMM0800, end |-> HHMM2200, timezone |-> "Asia/Kolkata"],
    [enabled |-> TRUE, start |-> HMM800, end |-> HHMM2200, timezone |-> "UTC"],
    [enabled |-> TRUE, start |-> HHMM2200, end |-> <<>>, timezone |-> "UTC"],
    [enabled |-> TRUE, start |-> HHMM0800, end |-> HHMM0800, timezone |-> "UTC"] }

\* null, a second before t, t itself, a second after t
InstantsAround(t) == {Null, t - 1, t, t + 1}

\* the subscription documents, with endpoint e
SubscriptionSpace(e, t) ==
  [endpoint : {e},
   preferences : [flashSales : BOOLEAN, newArrivals : BOOLEAN,
                  quietHours : QuietHoursSpace, mutedUntil : InstantsAround(t)],
   expirationTime : InstantsAround(t)]

\* const eligible = filterEligibleSubscriptions(audience, campaign.category)
callFilterEligibleSubscriptions ==
  /\ ~eligible.run
  /\ eligible' = [run |-> TRUE,
                  list |-> filterEligibleSubscriptions(subscriptions, category, serverNow)]
  /\ UNCHANGED <<now, store, passes, queued, net, inbox, syncReg, hasSync, cacheVars, durableVars, restVars>>
  /\ UNCHANGED <<serverNow, subscriptions, category, pushVars>>

\* a dispatch has loaded its audience and is about to filter it
InitFilter ==
  /\ now = 0
  /\ store = {}
  /\ passes = [p \in Passes |-> IdlePass]
  /\ queued = 0
  /\ net = "up"
  /\ inbox = <<>>
  /\ syncReg = FALSE
  /\ hasSync = FALSE
  /\ DurableIdle
  /\ RestIdle
  /\ CachesSettled
  /\ serverNow \in {AtUTC(8, 0), AtUTC(9, 0), AtUTC(22, 0), AtUTC(23, 30)}
  /\ category \in {"flashSales", "newArrivals"}
  /\ subscriptions \in   \* 1..MaxAudience documents with distinct endpoints
       UNION { {a \in [1..n -> UNION {SubscriptionSpace(e, serverNow) : e \in 1..n}] :
                  \A k \in 1..n : a[k].endpoint = k} : n \in 1..MaxAudience }
  /\ eligible = NotRun
  /\ PushServerFresh

SpecFilter == InitFilter /\ [][callFilterEligibleSubscriptions]_vars

\* ---- the push server: collections, timers (server/index.js) ----

workerVars == <<now, store, passes, queued, net, inbox, syncReg, hasSync, cacheVars, durableVars, restVars>>

filterVars == <<subscriptions, category, eligible>>

\* Node: a setTimeout delay (in milliseconds) that is not in 1..TIMEOUT_MAX is set to 1
TIMEOUT_MAX == 2147483647

\* an instant further away than a timer can count, from every instant of the clock
FarInstant == (TIMEOUT_MAX \div 1000) + MaxClock + 1

\* defaultPreferences of POST /save-subscription, on a server whose time zone is UTC
defaultPreferences ==
  [flashSales |-> TRUE, newArrivals |-> TRUE,
   quietHours |-> [enabled |-> FALSE, start |-> HHMM2200, end |-> HHMM0800,
                   timezone |-> "UTC"],
   mutedUntil |-> Null]

\* req.body.preferences: absent; opted out of flashSales, muted and in its quiet hours
\* (the clock of the server model stays in the first minute after 00:00 UTC); opted
\* in and muted
PreferencesInputs ==
  { <<>>,
    <<[flashSales |-> FALSE, newArrivals |-> TRUE,
       quietHours |-> [enabled |-> TRUE, start |-> HHMM2200, end |-> HHMM0800,
                       timezone |-> ""],
       mutedUntil |-> FarInstant]>>,
    <<[defaultPreferences EXCEPT !.mutedUntil = FarInstant]>> }

\* finalSub of POST /save-subscription (keys and updatedAt are left out)
finalSub(endpoint, prefsInput) ==
  [endpoint |-> endpoint, expirationTime |-> Null,
   preferences |-> IF prefsInput = <<>> THEN defaultPreferences ELSE prefsInput[1]]

\* variant: an insert that does not look for the document of the endpoint
insertSubscription(st, doc) == st \cup {doc}

\* subscriptions.updateOne({endpoint}, {$set: finalSub}, {upsert: true})
upsertSubscription(st, doc) == {s \in st : s.endpoint # doc.endpoint} \cup {doc}

\* variant: the document is left in the collection
leaveSubscription(st, endpoint) == st

\* subscriptions.deleteOne({endpoint})
deleteSubscription(st, endpoint) == {s \in st : s.endpoint # endpoint}

\* subscriptions.find({[`preferences.${category}`]: true}).toArray()
RECURSIVE findSubscriptions(_, _)
findSubscriptions(st, cat) ==
  IF st = {} THEN <<>>
  ELSE LET first == CHOOSE s \in st : \A q \in st : s.endpoint <= q.endpoint
           rest == findSubscriptions(st \ {first}, cat)
       IN  IF first.preferences[cat] THEN <<first>> \o rest ELSE rest

\* the category of the campaigns of the model (the model's documents differ in it only)
CampaignCategories == {"flashSales"}

\* the campaign object a dispatch is called with
CampaignArg(id, cat, sendAt) == [_id |-> id, category |-> cat, sendAt |-> sendAt]

\* the state of the process that scheduling works on
ProcessState(ds, cs, ts, reg) ==
  [dispatches |-> ds, campaigns |-> cs, timers |-> ts, scheduledCampaigns |-> reg,
   ok |-> TRUE]

FreeSlots(ds) == {d \in Dispatches : ds[d].pc = "idle"}

\* dispatchCampaign(campaign) is called: it runs up to its first await.  (The model
\* gives it the lowest free slot; ok is FALSE when there is none.)
callDispatchCampaign(st, campaign, caller) ==
  IF FreeSlots(st.dispatches) = {} THEN [st EXCEPT !.ok = FALSE]
  ELSE LET d == CHOOSE x \in FreeSlots(st.dispatches) : \A y \in FreeSlots(st.dispatches) : x <= y
           before == {c \in st.campaigns : c._id = campaign._id}
           nth == IF before = {} THEN 1 ELSE (CHOOSE c \in before : TRUE).calls + 1
       IN  [st EXCEPT
              !.dispatches[d] = [IdleDispatch EXCEPT !.pc = "load", !.caller = caller,
                                                     !.campaign = campaign, !.nth = nth],
              !.campaigns = {IF c._id = campaign._id THEN [c EXCEPT !.calls = nth] ELSE c :
                               c \in st.campaigns}]

\* setTimeout(callback, delay): the delay the timer is given, for a delay of whole
\* seconds; a delay out of range becomes 1 ms, which is due within the same second
timerDelay(delay) == IF delay >= 1 /\ delay <= TIMEOUT_MAX \div 1000 THEN delay ELSE 0

\* variant: a due campaign is armed like any other
scheduleCampaignDispatchAlwaysArms(st, campaign, t) ==
  LET delay == campaign.sendAt - t
  IN  [st EXCEPT
         !.timers = @ \cup {[campaign |-> campaign, due |-> t + timerDelay(delay)]},
         !.scheduledCampaigns = @ \cup {campaign._id}]

scheduleCampaignDispatch(st, campaign, t) ==
  LET delay == campaign.sendAt - t
  IN  IF delay <= 0
      THEN callDispatchCampaign(st, campaign, "schedule")
      ELSE [st EXCEPT
              !.timers = @ \cup {[campaign |-> campaign, due |-> t + timerDelay(delay)]},
              !.scheduledCampaigns = @ \cup {campaign._id}]

\* the process state becomes st
Becomes(st) ==
  /\ st.ok
  /\ dispatches' = st.dispatches
  /\ campaigns' = st.campaigns
  /\ timers' = st.timers
  /\ scheduledCampaigns' = st.scheduledCampaigns

ThisProcess == ProcessState(dispatches, campaigns, timers, scheduledCampaigns)

\* ---- the push server: request handlers ----

\* POST /api/send-notification (authenticated): without category 400; with sendAt the
\* campaign is inserted and scheduled, 202; else dispatchCampaign is awaited
postSendNotification(cat, sendAt) ==
  /\ served < MaxRequests
  /\ served' = served + 1
  /\ IF cat = ""
     THEN /\ response' = 400
          /\ UNCHANGED <<campaigns, scheduledCampaigns, timers, dispatches>>
     ELSE IF sendAt # Null
     THEN /\ Cardinality(campaigns) < MaxCampaigns
          /\ LET \* campaigns.insertOne(doc): insertedId is the next free id
                 id == CHOOSE x \in (1..MaxCampaigns) :
                         /\ x \notin {c._id : c \in campaigns}
                         /\ \A other \in (1..MaxCampaigns) :
                              other < x => other \in {c._id : c \in campaigns}
                 \* calls (how many times dispatchCampaign was called with this _id)
                 \* is bookkeeping the code does not have
                 doc == [_id |-> id, category |-> cat, sendAt |-> sendAt,
                         status |-> "scheduled", successCount |-> Null,
                         audienceCount |-> Null, calls |-> 0]
             IN  Becomes(scheduleCampaignDispatch(
                           [ThisProcess EXCEPT !.campaigns = @ \cup {doc}],
                           CampaignArg(id, cat, sendAt), serverNow))
          /\ response' = 202
     ELSE /\ Becomes(callDispatchCampaign(ThisProcess, CampaignArg(Null, cat, Null), "request"))
          /\ response' = 0
  /\ UNCHANGED <<serverNow, subStore, campaignEvents, currentSale, restarts>>
  /\ UNCHANGED <<workerVars, filterVars>>

\* variant: no upper limit
invalidDiscountAbove(discount) == discount.type # "number" \/ discount.value <= 0

\* typeof discount !== "number" || discount <= 0 || discount > 100
invalidDiscount(discount) ==
  discount.type # "number" \/ discount.value <= 0 \/ discount.value > 100

\* POST /api/start-sale (authenticated): 400 on an invalid discount; else currentSale is
\* set and the flashSales audience is loaded
postStartSale(discount) ==
  /\ served < MaxRequests
  /\ served' = served + 1
  /\ IF invalidDiscount(discount)
     THEN /\ response' = 400
          /\ UNCHANGED <<currentSale, dispatches>>
     ELSE /\ currentSale' = [isActive |-> TRUE, discount |-> discount.value]
          /\ FreeSlots(dispatches) # {}
          /\ LET d == CHOOSE x \in FreeSlots(dispatches) : \A y \in FreeSlots(dispatches) : x <= y
             IN  dispatches' = [dispatches EXCEPT ![d] =
                   [IdleDispatch EXCEPT !.pc = "load", !.caller = "sale",
                                        !.campaign = CampaignArg(Null, "flashSales", Null)]]
          /\ response' = 0
  /\ UNCHANGED <<serverNow, subStore, campaigns, campaignEvents, scheduledCampaigns, timers,
                 restarts>>
  /\ UNCHANGED <<workerVars, filterVars>>

\* POST /api/save-subscription: 400 without subscription.endpoint (Null); else the
\* document of that endpoint is upserted, 201
postSaveSubscription(endpoint, prefsInput) ==
  /\ served < MaxRequests
  /\ served' = served + 1
  /\ IF endpoint = Null
     THEN response' = 400 /\ subStore' = subStore
     ELSE response' = 201 /\ subStore' = upsertSubscription(subStore, finalSub(endpoint, prefsInput))
  /\ UNCHANGED <<serverNow, campaigns, campaignEvents, scheduledCampaigns, timers, dispatches,
                 currentSale, restarts>>
  /\ UNCHANGED <<workerVars, filterVars>>

\* ---- the push server: timers and restart ----

\* variant: the callback leaves the campaign's key in scheduledCampaigns
TimerFiresKeepingKey(timer) ==
  /\ timer \in timers
  /\ serverNow >= timer.due
  /\ LET st == callDispatchCampaign(ThisProcess, timer.campaign, "timer")
     IN  Becomes([st EXCEPT !.timers = @ \ {timer}])
  /\ UNCHANGED <<serverNow, subStore, campaignEvents, currentSale, response, served, restarts>>
  /\ UNCHANGED <<workerVars, filterVars>>

\* the callback of a timer runs, not before the timer is due: dispatchCampaign is called
\* and the campaign's key is deleted from scheduledCampaigns
TimerFires(timer) ==
  /\ timer \in timers
  /\ serverNow >= timer.due
  /\ LET st == callDispatchCampaign(ThisProcess, timer.campaign, "timer")
     IN  Becomes([st EXCEPT !.timers = @ \ {timer},
                            !.scheduledCampaigns = @ \ {timer.campaign._id}])
  /\ UNCHANGED <<serverNow, subStore, campaignEvents, currentSale, response, served, restarts>>
  /\ UNCHANGED <<workerVars, filterVars>>

\* variant: every campaign that is still scheduled matches
isUpcomingOrMissed(c, t) == c.status = "scheduled"

\* the filter {status: "scheduled", sendAt: {$gte: new Date()}}
isUpcoming(c, t) == c.status = "scheduled" /\ c.sendAt >= t

\* campaigns.find({status: "scheduled", sendAt: {$gte: new Date()}}).toArray(), by _id
RECURSIVE upcomingCampaigns(_, _)
upcomingCampaigns(cs, t) ==
  IF cs = {} THEN <<>>
  ELSE LET first == CHOOSE c \in cs : \A q \in cs : c._id <= q._id
           rest == upcomingCampaigns(cs \ {first}, t)
       IN  IF isUpcoming(first, t) THEN <<first>> \o rest ELSE rest

\* upcoming.forEach((campaign) => scheduleCampaignDispatch(campaign))
RECURSIVE scheduleAll(_, _, _)
scheduleAll(st, upcoming, t) ==
  IF upcoming = <<>> THEN st
  ELSE LET c == Head(upcoming)
       IN  scheduleAll(scheduleCampaignDispatch(st, CampaignArg(c._id, c.category, c.sendAt), t),
                       Tail(upcoming), t)

\* variant: the status of the campaigns is not looked at
bootstrapCampaignSchedulerAnyStatus(cs, t) ==
  scheduleAll(ProcessState([d \in Dispatches |-> IdleDispatch], cs, {}, {}),
              upcomingCampaigns({[c EXCEPT !.status = "scheduled"] : c \in cs}, t), t)

\* bootstrapCampaignScheduler() in a process that started at instant t
bootstrapCampaignScheduler(cs, t) ==
  scheduleAll(ProcessState([d \in Dispatches |-> IdleDispatch], cs, {}, {}),
              upcomingCampaigns(cs, t), t)

\* The process dies and is started again, which takes time: its timers, its fan-outs in
\* progress, scheduledCampaigns and currentSale are gone, the collections stay, and
\* bootstrapCampaignScheduler runs before the server listens.
Restart ==
  /\ restarts < MaxRestarts
  /\ restarts' = restarts + 1
  /\ serverNow < MaxClock
  /\ serverNow' = serverNow + 1
  /\ Becomes(bootstrapCampaignScheduler(campaigns, serverNow'))
  /\ currentSale' = NoSale
  /\ response' = 0
  /\ UNCHANGED <<subStore, campaignEvents, served>>
  /\ UNCHANGED <<workerVars, filterVars>>

ServerTick ==
  /\ serverNow < MaxClock
  /\ serverNow' = serverNow + 1
  /\ UNCHANGED <<pushVars, workerVars, filterVars>>

\* ---- the push server: the fan-out (dispatchCampaign 200-252, start-sale 291-318) ----

\* results.filter((result) => result.success).length
successCount(results) == Cardinality({k \in 1..Len(results) : results[k] = "ok"})

\* variant: every stored subscription is in the audience
wholeAudience(st, cat, t) ==
  [k \in 1..Cardinality(st) |->
     CHOOSE s \in st : Cardinality({q \in st : q.endpoint < s.endpoint}) = k - 1]

\* const audience = await subscriptions.find({[`preferences.${category}`]: true}).toArray();
\* const eligible = filterEligibleSubscriptions(audience, category)
eligibleAudience(st, cat, t) ==
  filterEligibleSubscriptions(findSubscriptions(st, cat), cat, t)

\* the audience is loaded and filtered, and sendWebPush is called for every eligible
\* subscription: each webpush.sendNotification request is on its way
LoadAudience(d) ==
  /\ dispatches[d].pc = "load"
  /\ LET cat == dispatches[d].campaign.category
         list == eligibleAudience(subStore, cat, serverNow)
     IN  dispatches' = [dispatches EXCEPT ![d].pc = "sending", ![d].eligible = list,
                                          ![d].results = [k \in 1..Len(list) |-> "sending"]]
  /\ UNCHANGED <<serverNow, subStore, campaigns, campaignEvents, scheduledCampaigns, timers,
                 currentSale, response, served, restarts>>
  /\ UNCHANGED <<workerVars, filterVars>>

\* sendWebPush for eligible[k] is in state from and goes to state to
SendStep(d, k, from, to) ==
  /\ dispatches[d].pc \in {"sending", "aborted"}
  /\ k \in 1..Len(dispatches[d].results)
  /\ dispatches[d].results[k] = from
  /\ dispatches' = [dispatches EXCEPT ![d].results[k] = to]
  /\ UNCHANGED <<serverNow, campaigns, campaignEvents, scheduledCampaigns, timers,
                 currentSale, response, served, restarts>>
  /\ UNCHANGED <<workerVars, filterVars>>

\* webpush.sendNotification resolves: {success: true}
SendOk(d, k) == SendStep(d, k, "sending", "ok") /\ subStore' = subStore

\* it rejects with another status than 410 and 404: {success: false}
SendError(d, k) == SendStep(d, k, "sending", "error") /\ subStore' = subStore

\* it rejects with 410 or 404: subscriptions.deleteOne is awaited
SendGone(d, k) == SendStep(d, k, "sending", "gone") /\ subStore' = subStore

\* the deleteOne resolves: {success: false}
PruneDone(d, k) ==
  /\ SendStep(d, k, "gone", "pruned")
  /\ subStore' = deleteSubscription(subStore, dispatches[d].eligible[k].endpoint)

\* the deleteOne rejects: sendWebPush rejects, so Promise.all and the fan-out reject,
\* while the other sends go on
PruneFail(d, k) ==
  /\ dispatches[d].pc \in {"sending", "aborted"}
  /\ k \in 1..Len(dispatches[d].results)
  /\ dispatches[d].results[k] = "gone"
  /\ dispatches' = [dispatches EXCEPT ![d].results[k] = "pruneFailed", ![d].pc = "aborted"]
  /\ UNCHANGED <<serverNow, subStore, campaigns, campaignEvents, scheduledCampaigns, timers,
                 currentSale, response, served, restarts>>
  /\ UNCHANGED <<workerVars, filterVars>>

\* the deliver event of a fan-out: campaign is the _id of the campaign (Null where no
\* document was inserted); POST /start-sale records the audience only
deliverEvent(dispatch) ==
  [campaign |-> dispatch.campaign._id, category |-> dispatch.campaign.category,
   audience |-> Len(dispatch.eligible),
   delivered |-> IF dispatch.caller = "sale" THEN Null ELSE successCount(dispatch.results)]

\* Promise.all has resolved and the insertOne of recordCampaignEvent resolves; POST
\* /start-sale then responds 200
RecordEvent(d) ==
  /\ dispatches[d].pc = "sending"
  /\ \A k \in 1..Len(dispatches[d].results) : dispatches[d].results[k] \in {"ok", "error", "pruned"}
  /\ campaignEvents' = Append(campaignEvents, deliverEvent(dispatches[d]))
  /\ IF dispatches[d].caller = "sale"
     THEN dispatches' = [dispatches EXCEPT ![d] = IdleDispatch] /\ response' = 200
     ELSE /\ dispatches' = [dispatches EXCEPT ![d].pc = "update",
                                              ![d].event = <<deliverEvent(dispatches[d])>>]
          /\ response' = response
  /\ UNCHANGED <<serverNow, subStore, campaigns, scheduledCampaigns, timers, currentSale,
                 served, restarts>>
  /\ UNCHANGED <<workerVars, filterVars>>

\* Promise.all has resolved and the insertOne of recordCampaignEvent rejects: the error
\* is caught and logged, nothing is inserted and the fan-out goes on
RecordEventFails(d) ==
  /\ dispatches[d].pc = "sending"
  /\ \A k \in 1..Len(dispatches[d].results) : dispatches[d].results[k] \in {"ok", "error", "pruned"}
  /\ IF dispatches[d].caller = "sale"
     THEN dispatches' = [dispatches EXCEPT ![d] = IdleDispatch] /\ response' = 200
     ELSE dispatches' = [dispatches EXCEPT ![d].pc = "update"] /\ response' = response
  /\ UNCHANGED <<serverNow, subStore, campaigns, campaignEvents, scheduledCampaigns, timers,
                 currentSale, served, restarts>>
  /\ UNCHANGED <<workerVars, filterVars>>

\* campaigns.updateOne({_id}, {$set: {status: "sent", successCount, audienceCount}})
\* resolves and dispatchCampaign returns; POST /send-notification then responds 200
UpdateStatus(d) ==
  /\ dispatches[d].pc = "update"
  /\ campaigns' =
       { IF c._id = dispatches[d].campaign._id
         THEN [c EXCEPT !.status = "sent",
                        !.successCount = successCount(dispatches[d].results),
                        !.audienceCount = Len(dispatches[d].eligible)]
         ELSE c : c \in campaigns }
  /\ dispatches' = [dispatches EXCEPT ![d] = IdleDispatch]
  /\ response' = IF dispatches[d].caller = "request" THEN 200 ELSE response
  /\ UNCHANGED <<serverNow, subStore, campaignEvents, scheduledCampaigns, timers, currentSale,
                 served, restarts>>
  /\ UNCHANGED <<workerVars, filterVars>>

\* subscriptions.find (at "load") or campaigns.updateOne (at "update") rejects, and
\* with it the dispatchCampaign call of a timer callback or of scheduleCampaignDispatch,
\* which only log the error
DispatchRejects(d) ==
  /\ dispatches[d].pc \in {"load", "update"}
  /\ dispatches[d].caller \in {"timer", "schedule"}
  /\ dispatches' = [dispatches EXCEPT ![d] = IdleDispatch]
  /\ UNCHANGED <<serverNow, subStore, campaigns, campaignEvents, scheduledCampaigns, timers,
                 currentSale, response, served, restarts>>
  /\ UNCHANGED <<workerVars, filterVars>>

\* the last send of a rejected fan-out has settled: nothing of it is left
Forget(d) ==
  /\ dispatches[d].pc = "aborted"
  /\ \A k \in 1..Len(dispatches[d].results) : dispatches[d].results[k] \notin {"sending", "gone"}
  /\ dispatches' = [dispatches EXCEPT ![d] = IdleDispatch]
  /\ UNCHANGED <<serverNow, subStore, campaigns, campaignEvents, scheduledCampaigns, timers,
                 currentSale, response, served, restarts>>
  /\ UNCHANGED <<workerVars, filterVars>>

DispatchStep(d) ==
  \/ LoadAudience(d)
  \/ \E k \in 1..MaxEndpoints : SendOk(d, k)
  \/ \E k \in 1..MaxEndpoints : SendError(d, k)
  \/ \E k \in 1..MaxEndpoints : SendGone(d, k)
  \/ \E k \in 1..MaxEndpoints : PruneDone(d, k)
  \/ \E k \in 1..MaxEndpoints : PruneFail(d, k)
  \/ RecordEvent(d)
  \/ RecordEventFails(d)
  \/ UpdateStatus(d)
  \/ Forget(d)

\* a process has started on the collections of an earlier run: no campaign yet
InitServer ==
  /\ now = 0
  /\ store = {}
  /\ passes = [p \in Passes |-> IdlePass]
  /\ queued = 0
  /\ net = "up"
  /\ inbox = <<>>
  /\ syncReg = FALSE
  /\ hasSync = FALSE
  /\ DurableIdle
  /\ RestIdle
  /\ CachesSettled
  /\ serverNow = 0
  /\ subscriptions = <<>>
  /\ category = "flashSales"
  /\ eligible = NotRun
  /\ subStore \in   \* one document per endpoint
       { st \in SUBSET { finalSub(e, input) : e \in (1..MaxEndpoints), input \in PreferencesInputs } :
           /\ \A s1, s2 \in st : s1.endpoint = s2.endpoint => s1 = s2
           /\ \A e \in (1..MaxEndpoints) : \E s1 \in st : s1.endpoint = e }
  /\ campaigns = {}
  /\ campaignEvents = <<>>
  /\ scheduledCampaigns = {}
  /\ timers = {}
  /\ dispatches = [d \in Dispatches |-> IdleDispatch]
  /\ currentSale = NoSale
  /\ response = 0
  /\ served = 0
  /\ restarts = 0

NextServer ==
  \/ \E cat \in CampaignCategories \cup {""}, sendAt \in {0, 1, MaxClock, FarInstant, Null} :
       postSendNotification(cat, sendAt)
  \/ \E discount \in { [type |-> "string", value |-> 10], [type |-> "number", value |-> 0],
                       [type |-> "number", value |-> 101], [type |-> "number", value |-> 100] } :
       postStartSale(discount)   \* req.body.discount: a string, or a number
  \/ \E endpoint \in (1..MaxEndpoints) \cup {Null}, prefsInput \in PreferencesInputs :
       postSaveSubscription(endpoint, prefsInput)
  \/ \E timer \in timers : TimerFires(timer)
  \/ Restart
  \/ ServerTick
  \/ \E d \in Dispatches : DispatchStep(d)
  \/ \E d \in Dispatches : DispatchRejects(d)

SpecServer == InitServer /\ [][NextServer]_vars

\* ---- the push server: subscriptions and orders (server/index.js 332-434, 518-535) ----

\* subscriptions.updateOne({endpoint}, {$set: {preferences}}): no upsert
updatePreferences(st, endpoint, prefs) ==
  {IF s.endpoint = endpoint THEN [s EXCEPT !.preferences = prefs] ELSE s : s \in st}

\* POST /api/update-preferences: 400 without endpoint or preferences; 404 when no
\* document matches; else the preferences of the document are replaced, 200
postUpdatePreferences(endpoint, prefsInput) ==
  /\ served < MaxRequests
  /\ served' = served + 1
  /\ IF endpoint = Null \/ prefsInput = <<>>
     THEN response' = 400 /\ subStore' = subStore
     ELSE /\ subStore' = updatePreferences(subStore, endpoint, prefsInput[1])
          /\ response' = IF \E s \in subStore : s.endpoint = endpoint THEN 200 ELSE 404
  /\ UNCHANGED <<serverNow, campaigns, campaignEvents, scheduledCampaigns, timers, dispatches,
                 currentSale, restarts>>
  /\ UNCHANGED <<workerVars, filterVars>>

\* POST /api/delete-subscription: deleteOne({endpoint}); 200 when a document was
\* deleted, else 404 (an absent endpoint matches no document)
postDeleteSubscription(endpoint) ==
  /\ served < MaxRequests
  /\ served' = served + 1
  /\ subStore' = deleteSubscription(subStore, endpoint)
  /\ response' = IF \E s \in subStore : s.endpoint = endpoint THEN 200 ELSE 404
  /\ UNCHANGED <<serverNow, campaigns, campaignEvents, scheduledCampaigns, timers, dispatches,
                 currentSale, restarts>>
  /\ UNCHANGED <<workerVars, filterVars>>

\* variant: an insert that does not look for the order of that id
insertOrder(st, record) == st \cup {record}

\* orders.updateOne({id: payload.id}, {$set: record}, {upsert: true}); every payload
\* has the same fields, so $set replaces all the fields of a document that matches.
\* submissions (how many requests wrote the document) is bookkeeping the code does
\* not have.
upsertOrder(st, record) ==
  LET matched == {o \in st : o.id = record.id}
      before == IF matched = {} THEN 0 ELSE (CHOOSE o \in matched : TRUE).submissions
  IN  (st \ matched) \cup {[record EXCEPT !.submissions = before + 1]}

\* POST /api/orders: 400 for a payload without id; else the record (the payload,
\* createdAt as a Date or now when absent, processedAt, status; correlationId is left
\* out) is upserted by id, and the answer is 200
postOrders(payload) ==
  /\ served < MaxRequests
  /\ served' = served + 1
  /\ IF payload.id = Null
     THEN response' = 400 /\ orders' = orders
     ELSE /\ orders' = upsertOrder(orders,
                 [id |-> payload.id, total |-> payload.total,
                  createdAt |-> IF payload.createdAt = Null THEN serverNow
                                ELSE payload.createdAt,
                  processedAt |-> serverNow, status |-> "processed", submissions |-> 0])
          /\ response' = 200
  /\ UNCHANGED <<now, store, passes, queued, net, inbox, syncReg, hasSync, cacheVars, durableVars>>
  /\ UNCHANGED <<pushes, notifications, opened, tracked, panel, requests, filterVars>>
  /\ UNCHANGED <<serverNow, subStore, campaigns, campaignEvents, scheduledCampaigns, timers,
                 dispatches, currentSale, restarts>>

InitSubscriptions ==
  /\ now = 0
  /\ store = {}
  /\ passes = [p \in Passes |-> IdlePass]
  /\ queued = 0
  /\ net = "up"
  /\ inbox = <<>>
  /\ syncReg = FALSE
  /\ hasSync = FALSE
  /\ DurableIdle
  /\ RestIdle
  /\ CachesSettled
  /\ serverNow = 0
  /\ subscriptions = <<>>
  /\ category = "flashSales"
  /\ eligible = NotRun
  /\ subStore \in   \* at most one document per endpoint; some endpoints never subscribed
       { st \in SUBSET { finalSub(e, input) : e \in (1..MaxEndpoints), input \in PreferencesInputs } :
           \A s1, s2 \in st : s1.endpoint = s2.endpoint => s1 = s2 }
  /\ campaigns = {}
  /\ campaignEvents = <<>>
  /\ scheduledCampaigns = {}
  /\ timers = {}
  /\ dispatches = [d \in Dispatches |-> IdleDispatch]
  /\ currentSale = NoSale
  /\ response = 0
  /\ served = 0
  /\ restarts = 0

\* requests on subscriptions and orders, and campaigns dispatched at once
NextSubscriptions ==
  \/ \E endpoint \in (1..MaxEndpoints) \cup {Null}, prefsInput \in PreferencesInputs :
       postSaveSubscription(endpoint, prefsInput)
  \/ \E endpoint \in (1..MaxEndpoints) \cup {Null}, prefsInput \in PreferencesInputs :
       postUpdatePreferences(endpoint, prefsInput)
  \/ \E endpoint \in (1..MaxEndpoints) \cup {Null} : postDeleteSubscription(endpoint)
  \/ \E id \in 1..MaxOrderId \cup {Null}, total \in 1..MaxTotal, createdAt \in {Null, 1} :
       postOrders([id |-> id, total |-> total, createdAt |-> createdAt])
  \/ \E cat \in CampaignCategories : postSendNotification(cat, Null)
  \/ \E d \in Dispatches : DispatchStep(d)

SpecSubscriptions == InitSubscriptions /\ [][NextSubscriptions]_vars

\* ---- push notifications of the worker (sw.js 286-364 and 446-508) ----

\* A push event is dispatched to both 'push' listeners of the worker.  data.kind is
\* "none" (event.data is null), "garbled" (event.data.json() throws) or "json";
\* data.actions is payload.actions (<<>> when absent, else <<the set>>), data.campaign is
\* payload.data.campaignId (Null when payload.data is absent).  Both listeners return
\* early unless the kind is "json".  The first shows a notification with
\* payload.actions || [open, dismiss] and delivers a 'deliver' event
\* (deliverCampaignEvent posts nothing without campaignId and notificationId); the
\* second shows a notification with the actions [open, close].  No tag is given, so
\* each showNotification call displays a notification of its own.  A notification is
\* named by its push and the listener that showed it (1: line 286, 2: line 446).
PushEvent(data) ==
  /\ pushes < MaxPushes
  /\ pushes' = pushes + 1
  /\ IF data.kind # "json"
     THEN UNCHANGED <<notifications, tracked>>
     ELSE /\ notifications' = notifications \cup
               { [push |-> pushes', listener |-> 1, campaign |-> data.campaign,
                  actions |-> IF data.actions = <<>> THEN {"open", "dismiss"}
                              ELSE data.actions[1]],
                 [push |-> pushes', listener |-> 2, campaign |-> data.campaign,
                  actions |-> {"open", "close"}] }
          /\ tracked' = IF data.campaign = Null THEN tracked
                        ELSE Append(tracked, [event |-> "deliver", campaign |-> data.campaign])
  /\ UNCHANGED <<now, store, passes, queued, net, inbox, syncReg, hasSync, cacheVars, durableVars>>
  /\ UNCHANGED <<orders, opened, panel, requests, serverVars>>

\* A notificationclick event for the notification (push, listener) with event.action
\* = action ("" for a click on the body) is dispatched to both 'notificationclick'
\* listeners.  Both close the notification.  The first (line 326) delivers a 'dismiss'
\* event and returns when the action is 'dismiss', else it opens a window and
\* delivers a 'click' event.  The second (line 482) returns when the action is
\* 'close', else it focuses the storefront tab or opens a window.
NotificationClick(push, listener, action) ==
  /\ \E n \in notifications :
       /\ n.push = push /\ n.listener = listener
       /\ action \in n.actions \cup {""}
       /\ notifications' = notifications \ {n}
       /\ tracked' = IF n.campaign = Null THEN tracked
                     ELSE Append(tracked, [event |-> IF action = "dismiss" THEN "dismiss"
                                                     ELSE "click",
                                           campaign |-> n.campaign])
  /\ opened' = opened + (IF action = "dismiss" THEN 0 ELSE 1)
                       + (IF action = "close" THEN 0 ELSE 1)
  /\ UNCHANGED <<now, store, passes, queued, net, inbox, syncReg, hasSync, cacheVars, durableVars>>
  /\ UNCHANGED <<orders, pushes, panel, requests, serverVars>>

\* the worker is active and has shown no notification
InitPush ==
  /\ now = 0
  /\ store = {}
  /\ passes = [p \in Passes |-> IdlePass]
  /\ queued = 0
  /\ net = "up"
  /\ inbox = <<>>
  /\ syncReg = FALSE
  /\ hasSync = FALSE
  /\ DurableIdle
  /\ RestIdle
  /\ CachesSettled
  /\ ServerIdle

NextPush ==
  \/ \E kind \in {"none", "garbled", "json"}, actions \in {<<>>, <<{}>>}, campaign \in {Null, 1} :
       PushEvent([kind |-> kind, actions |-> actions, campaign |-> campaign])
  \/ \E push \in 1..MaxPushes, listener \in 1..2, action \in {"", "open", "dismiss", "close"} :
       NotificationClick(push, listener, action)

SpecPush == InitPush /\ [][NextPush]_vars

\* ---- the settings panel (DarkModeToggle.tsx 152-268, services/api.ts 103-118) ----

\* The tail shared by the handlers of the panel: setPreferences(next), then
\* updatePreferences(next, previous), which posts {endpoint, preferences: next} to
\* /api/update-preferences for the subscription of the browser (endpoint 1) and is
\* suspended until the fetch settles.  A request keeps the closure of its call: next
\* and rollback.  Settled requests stay in the set with pc "done" (bookkeeping the
\* code does not have).  Nothing orders a request after the one made before it.
setAndUpdatePreferences(next) ==
  /\ panel # <<>>
  /\ Cardinality(requests) < MaxChanges
  /\ panel' = <<next>>
  /\ requests' = requests \cup
       { [id |-> Cardinality(requests) + 1, endpoint |-> 1, next |-> next,
          rollback |-> panel[1], pc |-> "sent", ok |-> FALSE] }
  /\ UNCHANGED <<now, store, passes, queued, net, inbox, syncReg, hasSync, cacheVars, durableVars>>
  /\ UNCHANGED <<orders, pushes, notifications, opened, tracked, serverVars>>

\* handlePreferenceChange(category, value): next = {...preferences, [category]: value}
handlePreferenceChange(cat, value) ==
  /\ panel # <<>>
  /\ setAndUpdatePreferences([panel[1] EXCEPT ![cat] = value])

\* handleQuietHourToggle(enabled): next.quietHours = {...quietHours, enabled}
handleQuietHourToggle(enabled) ==
  /\ panel # <<>>
  /\ setAndUpdatePreferences([panel[1] EXCEPT !.quietHours.enabled = enabled])

\* handleSnooze(hours): next.mutedUntil = Date.now() + hours * 60 * 60 * 1000
\* (instants of the model are seconds)
handleSnooze(hours) ==
  /\ panel # <<>>
  /\ setAndUpdatePreferences([panel[1] EXCEPT !.mutedUntil = now + hours * 3600])

\* handleClearSnooze: returns when nothing is muted; else next.mutedUntil = null
handleClearSnooze ==
  /\ panel # <<>>
  /\ panel[1].mutedUntil # Null
  /\ setAndUpdatePreferences([panel[1] EXCEPT !.mutedUntil = Null])

\* POST /api/update-preferences handles the request id of the panel: updateOne sets
\* the preferences of the document of the endpoint; 404 when none matched, 200
\* otherwise; 500 and no write when updateOne throws.  The response is on its way.
serveUpdatePreferences(id, throws) ==
  /\ \E r \in requests :
       /\ r.id = id /\ r.pc = "sent"
       /\ LET matched == \E s \in subStore : s.endpoint = r.endpoint
          IN  /\ subStore' = IF throws THEN subStore
                             ELSE updatePreferences(subStore, r.endpoint, r.next)
              /\ response' = IF throws THEN 500 ELSE IF matched THEN 200 ELSE 404
              /\ requests' = (requests \ {r}) \cup
                   {[r EXCEPT !.pc = "answered", !.ok = ~throws /\ matched]}
  /\ served' = served + 1
  /\ UNCHANGED <<now, store, passes, queued, net, inbox, syncReg, hasSync, cacheVars, durableVars>>
  /\ UNCHANGED <<orders, pushes, notifications, opened, tracked, panel>>
  /\ UNCHANGED <<serverNow, filterVars, campaigns, campaignEvents, scheduledCampaigns, timers,
                 dispatches, currentSale, restarts>>

\* updateSubscriptionPreferences settles for the request id and updatePreferences
\* resumes: success is response.ok, or false when the fetch rejected (the request or
\* its response was lost); if (!success && rollback) setPreferences(rollback).
settleUpdatePreferences(id, rejected) ==
  /\ \E r \in requests :
       /\ r.id = id /\ r.pc \in {"sent", "answered"}
       /\ r.pc = "sent" => rejected
       /\ panel' = IF ~rejected /\ r.ok THEN panel ELSE <<r.rollback>>
       /\ requests' = (requests \ {r}) \cup {[r EXCEPT !.pc = "done"]}
  /\ UNCHANGED <<now, store, passes, queued, net, inbox, syncReg, hasSync, cacheVars, durableVars>>
  /\ UNCHANGED <<orders, pushes, notifications, opened, tracked, serverVars>>

\* the browser is subscribed with the default preferences, the panel was opened and
\* fetchPreferences has loaded them
InitPanel ==
  /\ now = 0
  /\ store = {}
  /\ passes = [p \in Passes |-> IdlePass]
  /\ queued = 0
  /\ net = "up"
  /\ inbox = <<>>
  /\ syncReg = FALSE
  /\ hasSync = FALSE
  /\ DurableIdle
  /\ CachesSettled
  /\ orders = {}
  /\ pushes = 0
  /\ notifications = {}
  /\ opened = 0
  /\ tracked = <<>>
  /\ panel = <<defaultPreferences>>
  /\ requests = {}
  /\ serverNow = 0
  /\ subscriptions = <<>>
  /\ category = "flashSales"
  /\ eligible = NotRun
  /\ subStore = {finalSub(1, <<>>)}
  /\ campaigns = {}
  /\ campaignEvents = <<>>
  /\ scheduledCampaigns = {}
  /\ timers = {}
  /\ dispatches = [d \in Dispatches |-> IdleDispatch]
  /\ currentSale = NoSale
  /\ response = 0
  /\ served = 0
  /\ restarts = 0

NextPanel ==
  \/ \E cat \in {"flashSales", "newArrivals"}, value \in BOOLEAN :
       handlePreferenceChange(cat, value)
  \/ \E enabled \in BOOLEAN : handleQuietHourToggle(enabled)
  \/ \E hours \in {12, 24} : handleSnooze(hours)
  \/ handleClearSnooze
  \/ \E id \in 1..MaxChanges, throws \in BOOLEAN : serveUpdatePreferences(id, throws)
  \/ \E id \in 1..MaxChanges, rejected \in BOOLEAN : settleUpdatePreferences(id, rejected)

SpecPanel == InitPanel /\ [][NextPanel]_vars

\* ---- properties of the checkout queue ----

StoreIds(st) == {r.id : r \in st}

\* C1: a record leaves the store only after a POST /orders of its payload returned 2xx
\* or when its age exceeds 72 h, and the item whose write failed is in the store with
\* the same payload when the pass ends.
C1_RemovedOnlyAfterWriteOrExpiry ==
  [][/\ \A r \in store :
          r.id \notin StoreIds(store') =>
            \/ isExpired(r, now)
            \/ \E p \in Passes : /\ passes[p].pc = "okDelete"
                                 /\ Cur(p).payload = r.payload
     /\ \A p \in Passes :
          (passes[p].failed /\ passes[p].pc = "status" /\ Acts(p)) =>
            \E r \in store : r.payload = Cur(p).payload]_vars

\* C2: once the write of an item failed the pass only broadcasts its final status (no
\* further POST, delete or completion message); and a pass no other handler disturbed
\* leaves exactly the items from the failing one on and reports their number: for
\* A, B, C with only B failing, A is completed, B and C stay, the count is 2.
C2_EarlyStop ==
  [][\A p \in Passes :
       /\ (passes[p].failed /\ Acts(p)) => (store' = store /\ passes'[p].pc = "idle")
       /\ \A count \in 0..MaxId :
            (ReportsPending(p, count) /\ passes[p].clean) =>
              /\ store' = {passes[p].queue[k] : k \in 1..Len(passes[p].queue)}
              /\ count = Len(passes[p].queue)
              /\ (passes[p].failed <=> passes[p].queue # <<>>)]_vars

\* a pass over A, B, C (ids 1, 2, 3) completed A, failed on B and is about to report
C2_Witness ==
  \E p \in Passes :
    /\ passes[p].pc = "status" /\ passes[p].failed /\ passes[p].clean
    /\ passes[p].completed = {1}
    /\ [k \in 1..Len(passes[p].queue) |-> passes[p].queue[k].id] = <<2, 3>>
    /\ StoreIds(store) = {2, 3}

\* C3: no item is reported as successfully completed while an item with an earlier
\* queuedAt is still queued and unexpired.
C3_NoLaterBeforeEarlier ==
  [][\A p \in Passes :
       Completes(p, TRUE) =>
         \A r \in store : r.queuedAt < Cur(p).queuedAt => isExpired(r, now)]_vars

\* C4: at most one processCheckoutQueue pass is in progress at any time.
C4_SingleFlight == Cardinality({p \in Passes : Running(p)}) <= 1

\* C5: every item that was older than 72 h when a pass read the queue has been deleted
\* by the time the pass ends.
C5_ExpiredAlwaysDropped ==
  [][\A p \in Passes :
       (passes[p].pc = "status" /\ Acts(p)) => passes[p].stale \cap store = {}]_vars

\* C6: an item examined at an age above 72 h is not submitted (the pass goes to its
\* delete, not to a fetch), is deleted, and the pass goes on with the next item; an
\* item examined at 72 h or less is submitted.
C6_ExpiryStrict ==
  [][\A p \in Passes :
       Acts(p) =>
         /\ passes'[p].pc \in {"fetch", "expDelete"} =>
              (passes'[p].pc = "expDelete" <=>
                 (now' - Head(passes'[p].queue).queuedAt) * TICK_MINUTES > EXPIRY_MINUTES)
         /\ passes[p].pc = "expDelete" =>
              (passes'[p].pc = "expNotify" /\ Cur(p).id \notin StoreIds(store'))
         /\ passes[p].pc = "expNotify" =>
              /\ passes'[p].queue = Tail(passes[p].queue)
              /\ passes'[p].pc \in {"fetch", "expDelete", "status"}
              /\ (passes'[p].pc = "status" <=> passes'[p].queue = <<>>)]_vars

\* a pass dropped an expired item, went on, and submitted an item aged exactly 72 h
C6_Witness ==
  \E p \in Passes :
    /\ passes[p].pc = "fetch"
    /\ passes[p].dropped # {}
    /\ ageMinutes(Cur(p), now) = EXPIRY_MINUTES

\* C8: getAllQueuedCheckouts returns the stored items in ascending order of queuedAt.
C8_ListAllByQueuedAt ==
  LET q == getAllQueuedCheckouts(store)
  IN  \A i, j \in 1..Len(q) : i < j => q[i].queuedAt <= q[j].queuedAt

\* C7: enqueue upserts on id: after a QUEUE_CHECKOUT is handled the store holds exactly
\* one item with the payload's id and it carries that payload (so of two enqueues with
\* the same id the second payload is the one stored); no two stored items share an id.
C7_EnqueueUpserts ==
  [][/\ \A r1, r2 \in store' : r1.id = r2.id => r1 = r2
     /\ (inbox # <<>> /\ Head(inbox).type = "QUEUE_CHECKOUT" /\ inbox' = Tail(inbox)) =>
          LET pl == Head(inbox).payload
          IN  /\ Cardinality({r \in store' : r.id = pl.id}) = 1
              /\ \A r \in store' : r.id = pl.id => r.payload = pl]_vars

\* an id was enqueued again with another payload after a pass had read the first
C7_Witness ==
  \E p \in Passes : \E r \in store :
    /\ Running(p) /\ passes[p].queue # <<>>
    /\ r.id = Cur(p).id /\ r.payload # Cur(p).payload

\* C9: once the client is online and the endpoint accepts writes, a queued order does
\* not stay queued with no replay on its way: when no message is in flight, no sync
\* registration is pending and no pass is in progress, the queue is empty.
C9_QueuedOrdersDrain ==
  (net = "up" /\ inbox = <<>> /\ ~syncReg /\ \A p \in Passes : ~Running(p)) => store = {}

\* C24: on every transition from offline to online the page requests a replay: it
\* registers the 'checkout-sync' tag when the registration has sync, and posts
\* TRIGGER_CHECKOUT_SYNC to the active worker otherwise; and the worker answers both
\* the sync event and the message by calling processCheckoutQueue, which reads the
\* queue and starts on its first item (on an empty queue it only reports count 0).
C24_OnlineRequestsReplay ==
  [][/\ (net = "offline" /\ net' # "offline") =>
          IF hasSync
          THEN syncReg' /\ inbox' = inbox
          ELSE inbox' = Append(inbox, [type |-> "TRIGGER_CHECKOUT_SYNC"]) /\ syncReg' = syncReg
     /\ (\/ syncReg /\ ~syncReg'
         \/ inbox # <<>> /\ Head(inbox).type = "TRIGGER_CHECKOUT_SYNC" /\ inbox' = Tail(inbox)) =>
          /\ store' = store
          /\ IF store = {}
             THEN passes' = passes
             ELSE \E p \in Passes :
                    /\ ~Running(p)
                    /\ passes' = [passes EXCEPT ![p] =
                         LoopHead([IdlePass EXCEPT !.stale = {r \in store : isExpired(r, now)}],
                                  getAllQueuedCheckouts(store), now)]]_vars

\* without Background Sync, a pass is at work on an order that was queued while offline:
\* only the message posted on coming back online can have started it
C24_Witness ==
  /\ ~hasSync
  /\ net # "offline"
  /\ \E p \in Passes : Running(p) /\ passes[p].queue # <<>>

\* C31: every CHECKOUT_SYNC_COMPLETE message (success or expired) follows a delete
\* that removed exactly the record the pass read, so that the message's order is the
\* payload that was stored and there is one completion message per removed record.
C31_CompletionPerRemovedItem ==
  [][\A p \in Passes :
       (passes[p].pc \in {"okDelete", "expDelete"} /\ Acts(p)) =>
         /\ Cur(p) \in store
         /\ store' = store \ {Cur(p)}]_vars

\* C32: a queued item is accepted by POST /orders at most once: no two invocations are
\* both past a 2xx answer to the POST of the same stored record.
C32_AtMostOneAcceptedWrite ==
  \A p, q \in Passes :
    (/\ p # q
     /\ passes[p].pc \in {"okDelete", "okNotify"}
     /\ passes[q].pc \in {"okDelete", "okNotify"}) => Cur(p) # Cur(q)

\* ---- properties of the queue with storage failures ----

\* C21: each store operation is all-or-nothing: when the transaction of enqueueCheckout,
\* deleteQueuedCheckout or getAllQueuedCheckouts completes, the store holds the result
\* of the operation and the promise resolves; when it aborts or errors, the store is as
\* before and the promise rejects with the storage error, so that the caller does not
\* go on as after a success.
C21_StoreOperationsAtomic ==
  [][/\ queued' = queued + 1 =>
          \/ /\ settled' = "resolved"
             /\ store' = enqueueCheckout(store, Head(inbox).payload, now)
             /\ handler'.pc = "status"
          \/ /\ settled' = "rejected"
             /\ store' = store
             /\ handler'.pc = "idle"
     /\ \A p \in Passes :
          (passes[p].pc \in {"expDelete", "okDelete"} /\ Acts(p)) =>
            \/ /\ settled' = "resolved"
               /\ store' = deleteQueuedCheckout(store, Cur(p).id)
               /\ passes'[p].pc \in {"expNotify", "okNotify"}
            \/ /\ settled' = "rejected"
               /\ store' = store
               /\ passes'[p].pc \in {"idle", "status"}
     /\ ((handler.pc = "status" /\ handler'.pc = "idle")
         \/ \E p \in Passes : passes[p].pc = "status" /\ Acts(p)) =>
          /\ store' = store
          /\ settled' \in {"resolved", "rejected"}]_vars

\* C22: when the worker's enqueue of a QUEUE_CHECKOUT payload fails, the checkout
\* operation learns of it: once the enqueue has rejected the page does not show the
\* toast that says this order is queued, and the orders it counts as pending are all in
\* the store or still on their way to the worker.
C22_EnqueueFailureReachesCaller ==
  [][(queued' = queued + 1 /\ Rejected(settled')) =>
       /\ toast' # [type |-> "queued", order |-> Head(inbox).payload.id]
       /\ pending' <= Cardinality(store') + Len(inbox')]_vars

\* C23: on a QUEUE_CHECKOUT message the worker first commits the item and only then
\* replies CHECKOUT_SYNC_PENDING to the sender: when the handler goes on to its status
\* read the item is in the store; until the reply the item leaves the store only by a
\* delete of a replay pass; the count of the reply is the length of the queue at the
\* read; and a handler whose enqueue rejected sends no reply.
C23_CommitThenReply ==
  [][/\ (handler.pc = "idle" /\ handler'.pc = "status") =>
          [id |-> handler'.payload.id, payload |-> handler'.payload, queuedAt |-> now]
            \in store'
     /\ (handler.pc = "status" /\ handler'.pc = "status") =>
          \A r \in store :
            (r.id = handler.payload.id /\ r \notin store') =>
              \E p \in Passes :
                passes[p].pc \in {"expDelete", "okDelete"} /\ Cur(p).id = r.id /\ Acts(p)
     /\ (handler.pc = "status" /\ handler'.pc = "idle" /\ settled' = "resolved") =>
          /\ store' = store
          /\ pending' = Cardinality(store)
     /\ (queued' = queued + 1 /\ handler'.pc = "idle") =>
          /\ pending' = pending
          /\ store' = store]_vars

\* the handler has committed its item and has not replied yet, and a replay pass has
\* just deleted the item
C23_Witness ==
  /\ handler.pc = "status"
  /\ \A r \in store : r.id # handler.payload.id
  /\ \E p \in Passes :
       passes[p].pc \in {"expNotify", "okNotify"} /\ Cur(p).id = handler.payload.id

\* C26: replay is idempotent.  A pass works on the queue as stored when it starts and
\* on each item of it once; an item it reports as sent or expired is out of the store
\* when the pass ends unless it was enqueued again, and an id enters the store only by
\* an enqueue: so a pass that follows with no enqueue in between does not find the
\* item, issues no POST /orders and no completion message for it.  On an empty queue
\* processCheckoutQueue starts no write and no delete, leaves the store as it is and
\* broadcasts only CHECKOUT_SYNC_PENDING {count: 0}.
C26_ReplayIdempotent ==
  [][/\ \A p \in Passes :
          /\ (~Running(p) /\ Running(p)') =>
               /\ store # {} /\ store' = store
               /\ passes'[p].queue = getAllQueuedCheckouts(store)
               /\ passes'[p].completed = {} /\ passes'[p].dropped = {}
          /\ (Acts(p) /\ passes'[p].pc \in {"fetch", "expDelete"}) =>
               Head(passes'[p].queue).id \notin passes'[p].completed \cup passes'[p].dropped
          /\ \A success \in BOOLEAN :
               Completes(p, success) =>
                 /\ Cur(p).id \notin passes[p].completed \cup passes[p].dropped
                 /\ passes[p].clean => Cur(p).id \notin StoreIds(store)
          /\ (passes[p].pc = "status" /\ Acts(p) /\ passes[p].clean) =>
               StoreIds(store') \cap (passes[p].completed \cup passes[p].dropped) = {}
     /\ (StoreIds(store') \ StoreIds(store) # {}) => queued' = queued + 1
     /\ (/\ store = {} /\ handler.pc = "idle" /\ \A p \in Passes : ~Running(p)
         /\ queued' = queued /\ inbox' = inbox /\ now' = now /\ net' = net
         /\ checkout' = checkout /\ settled' = "resolved") =>
          /\ store' = store
          /\ passes' = passes
          /\ toast' = toast
          /\ pending' = 0]_vars

\* a pass nothing disturbed has sent order 1, failed on order 2 and is about to end:
\* only order 2 is left for the pass that follows
C26_Witness ==
  /\ passes[1].pc = "status" /\ passes[1].clean
  /\ passes[1].completed = {1}
  /\ StoreIds(store) = {2}

\* C30: every replay pass that started on a non-empty queue ends by broadcasting
\* CHECKOUT_SYNC_PENDING with the length of the queue at that moment, whether it
\* drained the queue, stopped on a failed write or hit a failing store delete: a pass
\* ends only in its final sendQueueStatus, and when the read of that call resolves the
\* count the page receives is the number of records then stored, items enqueued
\* during the pass included.
C30_PassEndsWithStatus ==
  [][\A p \in Passes :
       (Running(p) /\ ~Running(p)') =>
         /\ passes[p].pc = "status"
         /\ settled' = "resolved" => pending' = Cardinality(store)]_vars

\* C33: pendingSyncRef is never negative, and whenever no message is on its way to the
\* worker, no handler is between its enqueue and its reply, and no replay pass is
\* running, it equals the number of items in the worker's queue.
C33_PendingMatchesQueue ==
  /\ pending >= 0
  /\ (inbox = <<>> /\ handler.pc = "idle" /\ \A p \in Passes : ~Running(p)) =>
       pending = Cardinality(store)

\* ---- properties of install and activate ----

\* C29: once the install and the activate event have completed, whatever the order in
\* which the steps of their handlers were taken, the shell cache of the current
\* version (flash-shell-flash-store-v3, holding the app-shell assets) exists and no
\* cache of another version is left.
C29_CurrentCachesSurvive ==
  lifecycle.phase = "activated" =>
    /\ \E c \in caches : c.name = APP_SHELL_CACHE /\ APP_SHELL_ASSETS \subseteq c.entries
    /\ \A c \in caches : includes(c.name, VERSION)

\* ---- properties of the push server ----

C13_DispatchedAtMostOnce ==
  /\ \A d \in Dispatches :
       (/\ dispatches[d].nth >= 2
        /\ dispatches[d].pc = "sending"
        /\ \E k \in 1..Len(campaignEvents) : campaignEvents[k].campaign = dispatches[d].campaign._id)
         => dispatches[d].results = <<>>
  /\ \A id \in (1..MaxCampaigns) :
       Cardinality({k \in 1..Len(campaignEvents) : campaignEvents[k].campaign = id}) <= 1

\* C14: a campaign that is stored as scheduled with a future sendAt when the process
\* restarts is armed again by bootstrapCampaignScheduler and is not dispatched at
\* startup: after a restart no fan-out of a campaign runs before the campaign's sendAt.
C14_RearmedNotAtStartup ==
  restarts >= 1 =>
    \A d \in Dispatches :
      (dispatches[d].pc # "idle" /\ dispatches[d].campaign._id \in (1..MaxCampaigns)) =>
        dispatches[d].campaign.sendAt <= serverNow

\* C15: a campaign scheduled with sendAt later than now, however far, is not dispatched
\* before sendAt, and its id is in scheduledCampaigns exactly while its timer is armed.
C15_NoDispatchBeforeSendAt ==
  /\ \A d \in Dispatches :
       (dispatches[d].pc # "idle" /\ dispatches[d].campaign.sendAt # Null) =>
         dispatches[d].campaign.sendAt <= serverNow
  /\ scheduledCampaigns = {timer.campaign._id : timer \in timers}

\* C16: a campaign whose sendAt is absent or not later than now is dispatched at once
\* and gets no timer and no scheduledCampaigns entry: a campaign inserted with a due
\* sendAt has its fan-out started in the same step; a fan-out started by POST
\* /send-notification without sendAt or by scheduleCampaignDispatch leaves no timer and
\* no registry entry for its campaign; and the request without sendAt is answered (200)
\* only by the step that completes its dispatch.
C16_DueDispatchedImmediately ==
  [][/\ \A c \in campaigns' :
          (c._id \notin {x._id : x \in campaigns} /\ c.sendAt <= serverNow) =>
            \E d \in Dispatches :
              /\ dispatches[d].pc = "idle" /\ dispatches'[d].pc = "load"
              /\ dispatches'[d].campaign._id = c._id
     /\ \A d \in Dispatches :
          (/\ dispatches[d].pc = "idle" /\ dispatches'[d].pc = "load"
           /\ dispatches'[d].caller \in {"request", "schedule"}) =>
            LET c == dispatches'[d].campaign
            IN  /\ c.sendAt = Null \/ c.sendAt <= serverNow'
                /\ c._id \notin scheduledCampaigns'
                /\ \A timer \in timers' : timer.campaign._id # c._id
                /\ dispatches'[d].caller = "request" =>
                     /\ c.sendAt = Null
                     /\ response' = 0
                     /\ timers' = timers /\ scheduledCampaigns' = scheduledCampaigns
     /\ \A d \in Dispatches :
          (/\ dispatches[d].caller = "request" /\ dispatches[d].pc \in {"load", "sending"}
           /\ restarts' = restarts) =>
            dispatches'[d].pc # "idle"
     /\ \A d \in Dispatches :
          (dispatches[d].caller = "request" /\ dispatches[d].pc = "update"
           /\ dispatches'[d].pc = "idle" /\ restarts' = restarts) =>
            response' = 200]_vars

\* scheduleCampaignDispatch has started the fan-out of a due campaign, which is sending
\* with no timer armed and an empty registry, after a request without sendAt was
\* answered 200 when its dispatch had recorded its deliver event
C16_Witness ==
  /\ response = 200
  /\ timers = {} /\ scheduledCampaigns = {}
  /\ \E k \in 1..Len(campaignEvents) :
       campaignEvents[k].campaign = Null /\ campaignEvents[k].delivered # Null
  /\ \E d \in Dispatches :
       /\ dispatches[d].caller = "schedule" /\ dispatches[d].pc = "sending"
       /\ dispatches[d].campaign.sendAt <= serverNow

\* C17: in a fan-out every eligible subscription gets exactly one send attempt: one send
\* is started per loaded subscription, the loaded subscriptions are distinct, and a
\* send that has been answered is never started again.  A send answered gone ends with
\* the subscription deleted from the store and is not counted as delivered; a send
\* that failed otherwise leaves the store as it is and stays failed (a restart of the
\* process ends its fan-outs).
C17_OneAttemptPerSubscription ==
  [][\A d \in Dispatches :
       LET old == dispatches[d]
           new == dispatches'[d]
       IN  /\ (old.pc = "load" /\ new.pc = "sending") =>
                /\ Len(new.results) = Len(new.eligible)
                /\ \A k \in 1..Len(new.results) : new.results[k] = "sending"
                /\ \A j, k \in 1..Len(new.eligible) :
                     new.eligible[j].endpoint = new.eligible[k].endpoint => j = k
           /\ (old.pc \in {"sending", "aborted"} /\ new.pc # "idle" /\ restarts' = restarts) =>
                /\ new.eligible = old.eligible
                /\ \A k \in 1..Len(old.results) :
                     /\ old.results[k] # "sending" => new.results[k] # "sending"
                     /\ old.results[k] \in {"ok", "error", "pruned"} =>
                          new.results[k] = old.results[k]
                     /\ (old.results[k] = "sending" /\ new.results[k] = "error") =>
                          subStore' = subStore
                     /\ (old.results[k] = "gone" /\ new.results[k] = "pruned") =>
                          \A s \in subStore' : s.endpoint # old.eligible[k].endpoint
           /\ (old.pc = "sending" /\ new.pc = "update") =>
                /\ \A k \in 1..Len(old.results) : old.results[k] \in {"ok", "error", "pruned"}
                /\ new.event # <<>> =>
                     new.event[1].delivered =
                       Cardinality({k \in 1..Len(old.results) : old.results[k] = "ok"})
           /\ (old.pc = "update" /\ new.pc = "idle" /\ restarts' = restarts) =>
                \A c \in campaigns' :
                  (c._id = old.campaign._id /\ c.status = "sent") =>
                    c.successCount =
                      Cardinality({k \in 1..Len(old.results) : old.results[k] = "ok"})]_vars

\* a fan-out has recorded its event after one send was answered gone and another failed
\* otherwise: nothing was delivered, the first subscription is no longer stored, the
\* second still is
C17_Witness ==
  \E d \in Dispatches :
    /\ dispatches[d].pc = "update"
    /\ dispatches[d].event # <<>> /\ dispatches[d].event[1].delivered = 0
    /\ \E j, k \in 1..Len(dispatches[d].results) :
         /\ dispatches[d].results[j] = "pruned"
         /\ \A s \in subStore : s.endpoint # dispatches[d].eligible[j].endpoint
         /\ dispatches[d].results[k] = "error"
         /\ dispatches[d].eligible[k] \in subStore

\* C18: a failure while sending to one recipient never blocks the dispatch: a fan-out
\* ends (other than by a restart of the process) only after it has gone on to record
\* its deliver event, and the stored campaign it was called for then has status sent.
C18_FailureNeverBlocks ==
  [][\A d \in Dispatches :
       (dispatches[d].pc # "idle" /\ dispatches'[d].pc = "idle" /\ restarts' = restarts) =>
         /\ \/ dispatches[d].pc = "update"
            \/ dispatches[d].pc = "sending" /\ dispatches[d].caller = "sale"
         /\ dispatches[d].campaign._id \in (1..MaxCampaigns) =>
              \E c \in campaigns' : c._id = dispatches[d].campaign._id /\ c.status = "sent"]_vars

\* C19: when dispatchCampaign returns for a stored campaign, the call has recorded one
\* deliver event, the document has status sent, audienceCount is the number of eligible
\* subscriptions, successCount the number of successful sends, 0 <= successCount <=
\* audienceCount, and the stored counts are the event's audience and delivered.
C19_CompletedDispatchRecorded ==
  [][\A d \in Dispatches :
       LET old == dispatches[d]
       IN  (/\ old.pc = "update" /\ dispatches'[d].pc = "idle" /\ restarts' = restarts
            /\ old.campaign._id \in (1..MaxCampaigns)) =>
             /\ old.event # <<>>
             /\ \E c \in campaigns' :
                  /\ c._id = old.campaign._id
                  /\ c.status = "sent"
                  /\ c.audienceCount = Len(old.eligible)
                  /\ c.successCount =
                       Cardinality({k \in 1..Len(old.results) : old.results[k] = "ok"})
                  /\ 0 <= c.successCount /\ c.successCount <= c.audienceCount
                  /\ old.event # <<>> =>
                       /\ old.event[1].audience = c.audienceCount
                       /\ old.event[1].delivered = c.successCount]_vars

\* C20: malformed input is rejected with a 4xx response and has no side effect: a
\* request answered 400 leaves currentSale, the collections, the fan-outs, the timers
\* and the registry as they were; and no request makes a sale whose discount is not a
\* number in 1..100, a stored subscription without endpoint, or a campaign or fan-out
\* without category.
C20_MalformedInputRejected ==
  [][/\ (served' = served + 1 /\ response' = 400) =>
          UNCHANGED <<currentSale, subStore, campaigns, campaignEvents, dispatches, timers,
                      scheduledCampaigns>>
     /\ served' = served + 1 =>
          /\ currentSale'.isActive => currentSale'.discount \in 1..100
          /\ \A s \in subStore' : s.endpoint \in (1..MaxEndpoints)
          /\ \A c \in campaigns' : c.category \in CampaignCategories
          /\ \A d \in Dispatches :
               dispatches'[d].pc # "idle" =>
                 dispatches'[d].campaign.category \in CampaignCategories]_vars

\* a request has been answered 400 while a sale is on, a campaign is stored and a
\* fan-out is sending: the rejected request touched none of them
C20_Witness ==
  /\ response = 400
  /\ served = MaxRequests
  /\ \/ currentSale.isActive /\ \E d \in Dispatches : dispatches[d].pc = "sending"
     \/ campaigns # {} /\ timers # {}

\* C25: POST /send-notification answers 202 exactly when the campaign is scheduled for
\* later and 200 exactly when it was dispatched immediately: the step that answers 202
\* arms a timer for a campaign whose sendAt is later than now and starts no fan-out,
\* and a step that starts a fan-out for the request's campaign does not answer 202;
\* the answer 200 is given by the step that completes the fan-out the request started.
C25_StatusTellsScheduledFromDispatched ==
  [][/\ (served' = served + 1 /\ response' = 202) =>
          /\ \A d \in Dispatches : dispatches'[d].pc = dispatches[d].pc
          /\ \E timer \in timers' \ timers :
               /\ timer.campaign.sendAt > serverNow
               /\ timer.campaign._id \notin {c._id : c \in campaigns}
     /\ (response # 200 /\ response' = 200) =>
          \E d \in Dispatches :
            /\ dispatches[d].caller = "request"
            /\ dispatches[d].pc # "idle" /\ dispatches'[d].pc = "idle"]_vars

\* C27: after any sequence of save-subscription, update-preferences, delete-subscription
\* and dispatch operations the store holds at most one subscription per endpoint; a
\* subscription comes into the store only by a save-subscription (answered 201), a
\* request answered 404 (update-preferences or delete-subscription on an unknown
\* endpoint) changes nothing, and a subscription leaves the store only by a
\* delete-subscription (answered 200) or when a delivery to it was answered gone.
C27_OneSubscriptionPerEndpoint ==
  [][/\ \A s1, s2 \in subStore' : s1.endpoint = s2.endpoint => s1 = s2
     /\ \A s \in subStore' :
          (\A old \in subStore : old.endpoint # s.endpoint) =>
            (served' = served + 1 /\ response' = 201)
     /\ (served' = served + 1 /\ response' = 404) => subStore' = subStore
     /\ \A old \in subStore :
          (\A s \in subStore' : s.endpoint # old.endpoint) =>
            \/ served' = served + 1 /\ response' = 200
            \/ \E d \in Dispatches : \E k \in 1..Len(dispatches[d].results) :
                 /\ dispatches[d].results[k] = "gone"
                 /\ dispatches'[d].results[k] = "pruned"
                 /\ dispatches[d].eligible[k].endpoint = old.endpoint]_vars

\* a delivery answered gone has removed a subscription, and a later request for an
\* unknown endpoint was answered 404
C27_Witness ==
  /\ response = 404
  /\ \E d \in Dispatches : \E k \in 1..Len(dispatches[d].results) :
       /\ dispatches[d].results[k] = "pruned"
       /\ \A s \in subStore : s.endpoint # dispatches[d].eligible[k].endpoint

\* C35: in every reachable state of a server process scheduledCampaigns holds at most
\* one armed timer per campaign id, and every id in it belongs to a stored campaign
\* whose status is still scheduled and whose timer has not fired.
C35_RegistryOfArmedScheduled ==
  /\ \A t1, t2 \in timers : t1.campaign._id = t2.campaign._id => t1 = t2
  /\ \A id \in scheduledCampaigns :
       /\ \E timer \in timers : timer.campaign._id = id
       /\ \E c \in campaigns : c._id = id /\ c.status = "scheduled"

\* after a restart the registry holds the campaign that bootstrap armed again
C35_Witness ==
  /\ restarts = 1
  /\ scheduledCampaigns # {}
  /\ \E c \in campaigns : c._id \in scheduledCampaigns /\ c.sendAt > serverNow

\* C36: at startup bootstrapCampaignScheduler hands to scheduleCampaignDispatch exactly
\* the campaigns with status scheduled and sendAt >= now (each is armed, or dispatched
\* at once when its sendAt is now); a campaign with status scheduled whose sendAt has
\* passed is neither dispatched nor armed, and from then on no step changes its
\* document, arms it or dispatches it.
C36_MissedCampaignsStayScheduled ==
  [][\A c \in campaigns :
       LET armed == \E timer \in timers' : timer.campaign._id = c._id
           started == \E d \in Dispatches :
                        dispatches'[d].pc # "idle" /\ dispatches'[d].campaign._id = c._id
           missed == /\ c.status = "scheduled" /\ c.sendAt < serverNow
                     /\ c._id \notin scheduledCampaigns
                     /\ \A d \in Dispatches :
                          dispatches[d].pc # "idle" => dispatches[d].campaign._id # c._id
       IN  /\ restarts' = restarts + 1 =>
                /\ isUpcoming(c, serverNow') <=> (armed \/ started)
                /\ armed <=> (c._id \in scheduledCampaigns')
                /\ armed => c.sendAt > serverNow'
                /\ ~isUpcoming(c, serverNow') => c \in campaigns'
           /\ missed => (c \in campaigns' /\ ~armed /\ ~started)]_vars

\* the process was restarted after the sendAt of a scheduled campaign had passed: the
\* campaign is still scheduled, was never dispatched and has no timer
C36_Witness ==
  /\ restarts = 1
  /\ timers = {} /\ scheduledCampaigns = {}
  /\ \A d \in Dispatches : dispatches[d].pc = "idle"
  /\ \E c \in campaigns : c.status = "scheduled" /\ c.sendAt < serverNow /\ c.calls = 0

\* C37: when the dispatchCampaign call of a timer callback fails before its status
\* update, the campaign keeps status scheduled and its key is out of
\* scheduledCampaigns with no timer left; and a campaign that was dispatched, is still
\* scheduled and is neither armed nor being dispatched gets no further dispatch
\* attempt in that process.
C37_FailedTimerDispatchIsDropped ==
  [][/\ \A d \in Dispatches :
          LET old == dispatches[d]
          IN  (/\ old.caller = "timer" /\ old.pc # "idle" /\ dispatches'[d].pc = "idle"
               /\ restarts' = restarts /\ campaigns' = campaigns) =>
                /\ \E c \in campaigns' : c._id = old.campaign._id /\ c.status = "scheduled"
                /\ old.campaign._id \notin scheduledCampaigns'
                /\ \A timer \in timers' : timer.campaign._id # old.campaign._id
     /\ \A c \in campaigns :
          (/\ c.status = "scheduled" /\ c.calls >= 1 /\ c._id \notin scheduledCampaigns
           /\ \A d \in Dispatches :
                dispatches[d].pc # "idle" => dispatches[d].campaign._id # c._id
           /\ restarts' = restarts) =>
            /\ c \in campaigns'
            /\ c._id \notin scheduledCampaigns'
            /\ \A d \in Dispatches :
                 dispatches'[d].pc # "idle" => dispatches'[d].campaign._id # c._id]_vars

\* the timer of a campaign scheduled far ahead has fired and its dispatch has failed:
\* the campaign is still scheduled, nothing is armed or running
C37_Witness ==
  /\ restarts = 0
  /\ timers = {} /\ scheduledCampaigns = {}
  /\ \A d \in Dispatches : dispatches[d].pc = "idle"
  /\ campaignEvents = <<>>
  /\ \E c \in campaigns : c.status = "scheduled" /\ c.calls = 1 /\ c.sendAt = FarInstant

\* C34: POST /api/orders is idempotent on the order id: after a request with an id,
\* however many came before, exactly one order has that id and it holds the fields of
\* this submission, and the other orders are untouched; a payload without id is
\* answered 400 and writes nothing.
C34_OrdersIdempotent ==
  [][\A id \in 1..MaxOrderId \cup {Null}, total \in 1..MaxTotal, createdAt \in {Null, 1} :
       postOrders([id |-> id, total |-> total, createdAt |-> createdAt]) =>
         IF id = Null
         THEN response' = 400 /\ orders' = orders
         ELSE /\ response' = 200
              /\ Cardinality({o \in orders' : o.id = id}) = 1
              /\ \A o \in orders' :
                   o.id = id =>
                     /\ o.total = total
                     /\ o.createdAt = (IF createdAt = Null THEN serverNow ELSE createdAt)
              /\ {o \in orders' : o.id # id} = {o \in orders : o.id # id}]_vars

\* an order was submitted twice, the second time with other fields
C34_Witness ==
  \E o \in orders : o.submissions = 2 /\ o.total = 2 /\ o.createdAt = 1

\* ---- properties of the push notifications ----

\* C38: the worker shows exactly one notification per push message, and a click on a
\* dismiss action ('dismiss' or 'close') opens or focuses no window and records at
\* most a dismiss event.
C38_OneNotificationQuietDismiss ==
  [][/\ pushes' = pushes + 1 =>
          \/ notifications' = notifications
          \/ Cardinality(notifications' \ notifications) = 1
     /\ \A push \in 1..MaxPushes, listener \in 1..2, action \in {"dismiss", "close"} :
          NotificationClick(push, listener, action) =>
            /\ opened' = opened
            /\ \A k \in 1..Len(tracked') : k > Len(tracked) => tracked'[k].event = "dismiss"]_vars

\* ---- properties of the settings panel ----

\* C39: once every update-preferences request of the panel has completed, the
\* preferences shown by the panel equal the preferences stored for the endpoint of
\* the browser on the server, whatever changes were made, however they overlapped
\* and whichever of them failed
C39_PanelMatchesServer ==
  (requests # {} /\ \A r \in requests : r.pc = "done") =>
    \A r \in requests : \A s \in subStore :
      s.endpoint = r.endpoint => panel = <<s.preferences>>

\* ---- properties of the audience filter ----

\* C10: filterEligibleSubscriptions selects a subscription for category C at instant
\* now if and only if preferences[C] is true, mutedUntil is null or <= now, now is not
\* within enabled quiet hours, and expirationTime is null or strictly > now (so
\* mutedUntil = now is eligible and expirationTime = now is not).
C10_EligibleIff ==
  eligible.run =>
    \A k \in 1..Len(subscriptions) :
      LET sub == subscriptions[k]
      IN  (\E j \in 1..Len(eligible.list) : eligible.list[j] = sub) <=>
            /\ sub.preferences[category]
            /\ (sub.preferences.mutedUntil = Null \/ sub.preferences.mutedUntil <= serverNow)
            /\ ~isWithinQuietHours(sub.preferences, serverNow)
            /\ (sub.expirationTime = Null \/ sub.expirationTime > serverNow)

\* C11: with quiet hours enabled and start, end, current in minutes since local
\* midnight, a subscription is within quiet hours iff start <= current < end when
\* start <= end (never when start = end), and iff current >= start or current < end
\* when start > end; with enabled = false it is never within.  So of the subscriptions
\* that pass the other tests the filter returns exactly those not within.
C11_QuietHoursWindow ==
  eligible.run =>
    \A k \in 1..Len(subscriptions) :
      LET sub == subscriptions[k]
          quiet == sub.preferences.quietHours
          start == minutesFromHHMM(quiet.start)
          end == minutesFromHHMM(quiet.end)
          current == localMinutes(serverNow, IF quiet.timezone = "" THEN "UTC" ELSE quiet.timezone)
          within == /\ quiet.enabled
                    /\ IF start <= end THEN start <= current /\ current < end
                       ELSE current >= start \/ current < end
      IN  (start # Null /\ end # Null) =>
            /\ isWithinQuietHours(sub.preferences, serverNow) <=> within
            /\ (/\ sub.preferences[category]
                /\ ~isTemporarilyMuted(sub.preferences, serverNow)
                /\ ~isPastExpiration(sub, serverNow)) =>
                 ((\E j \in 1..Len(eligible.list) : eligible.list[j] = sub) <=> ~within)

\* the filter ran at 23:30 and at 09:00 UTC on subscriptions with the window 22:00-08:00
\* that pass the other tests: the first is suppressed, the second is returned
C11_Witness ==
  /\ eligible.run
  /\ \E k \in 1..Len(subscriptions) :
       LET sub == subscriptions[k]
       IN  /\ sub.preferences.quietHours =
                [enabled |-> TRUE, start |-> HHMM2200, end |-> HHMM0800, timezone |-> ""]
           /\ sub.preferences[category]
           /\ sub.preferences.mutedUntil = Null /\ sub.expirationTime = Null
           /\ \/ serverNow = AtUTC(23, 30) /\ eligible.list = <<>>
              \/ serverNow = AtUTC(9, 0) /\ Len(subscriptions) = 1 /\ eligible.list = <<sub>>


====
